---- MODULE Spec2Model ----
(***************************************************************************)
(* A model of the lexical scope analyzer of src/ast/scopes.cc: the scope   *)
(* tree with its intrusive inner/sibling and unresolved lists, the         *)
(* declaration operations, the resolver (LookupRecursive) and the          *)
(* two-pass allocator.                                                     *)
(*                                                                         *)
(* Objects live in three arenas (the zone): scopes, variables and          *)
(* proxies are records in sequences and a pointer is an index, 0 = null.   *)
(* Operators that mutate the zone take the zone h = [s, v, p] and return   *)
(* the new zone (or a record [h, var, ...] when the C++ returns a value).  *)
(***************************************************************************)
EXTENDS Integers, Sequences, FiniteSets, TLC

\* ------------------------------------------------------------------ bounds
MaxOps == 4
MaxParamOps == 5
MaxTreeOps == 6
MaxStepOps == 4
MaxDeclOps == 4
MaxBlockOps == 5
MaxSnapOps == 4
MaxShapeOps == 4
MaxModuleOps == 4
MaxFvarOps == 5
MaxThisOps == 4
MaxCtxOps == 4
MaxFetchOps == 4
MaxAssignOps == 4

\* ------------------------------------------------------- program constants
MIN_CONTEXT_SLOTS == 4

Null == 0
Names == {"x"}
ThisName == "this"
ArgumentsName == "arguments"
NewTargetName == "new_target"
EmptyName == ""
MapNames == Names \cup {"y", ThisName, ArgumentsName, NewTargetName}

VARIABLES
    scopes,     \* the Scope objects of the zone
    variables,  \* the Variable objects of the zone
    proxies,    \* the VariableProxy objects of the zone
    cur,        \* the scope the parser is in
    ok,         \* the parser's ok flag (DeclareVariable's out-parameter)
    nops,       \* number of parser operations done
    pc,         \* position of the analysis pipeline
    todo,       \* scopes AllocateVariablesRecursively still has to finish
    done,       \* scopes whose allocation is finished, in order
    last,       \* the last operation and what it returned
    snapshot,   \* the Scope::Snapshot the parser holds, if it has taken one,
                \* and the zone as it was when the snapshot was taken
    tracked     \* finalized: the block scopes FinalizeBlockScope removed;
                \* added: the proxies added with AddUnresolved and not
                \* removed with RemoveUnresolved

vars == <<scopes, variables, proxies, cur, ok, nops, pc, todo, done, last, snapshot,
         tracked>>

Zone == [s |-> scopes, v |-> variables, p |-> proxies]

\* ------------------------------------------------------------ mode helpers
IsDynamicVariableMode(mode) == mode \in {"DYNAMIC", "DYNAMIC_GLOBAL", "DYNAMIC_LOCAL"}
IsDeclaredVariableMode(mode) == mode \in {"VAR", "LET", "CONST", "CONST_LEGACY"}
IsLexicalVariableMode(mode) == mode \in {"LET", "CONST"}

\* ---------------------------------------------------------------- Variable
NewVariable(scope, name, mode, kind, maybe_assigned) ==
    [scope |-> scope, name |-> name, mode |-> mode, kind |-> kind,
     location |-> "UNALLOCATED", index |-> -1,
     is_used |-> FALSE, force_context_allocation |-> FALSE,
     maybe_assigned |-> maybe_assigned, local_if_not_shadowed |-> Null]

AllocateTo(h, var, location, index) ==
    [h EXCEPT !.v[var].location = location, !.v[var].index = index]

is_dynamic(h, var) == IsDynamicVariableMode(h.v[var].mode)
is_this(h, var) == h.v[var].kind = "THIS"
IsUnallocated(h, var) == h.v[var].location = "UNALLOCATED"

set_is_used(h, var) == [h EXCEPT !.v[var].is_used = TRUE]
set_maybe_assigned(h, var) == [h EXCEPT !.v[var].maybe_assigned = TRUE]
ForceContextAllocation(h, var) == [h EXCEPT !.v[var].force_context_allocation = TRUE]

\* ------------------------------------------------------------- Scope basics
is_function_scope(h, s) == h.s[s].scope_type = "FUNCTION"
is_block_scope(h, s) == h.s[s].scope_type = "BLOCK"
is_with_scope(h, s) == h.s[s].scope_type = "WITH"
is_catch_scope(h, s) == h.s[s].scope_type = "CATCH"
is_script_scope(h, s) == h.s[s].scope_type = "SCRIPT"
is_eval_scope(h, s) == h.s[s].scope_type = "EVAL"
is_module_scope(h, s) == h.s[s].scope_type = "MODULE"
is_declaration_scope(h, s) == h.s[s].is_declaration_scope
is_sloppy(h, s) == ~h.s[s].strict
calls_eval(h, s) == h.s[s].scope_calls_eval
calls_sloppy_eval(h, s) == h.s[s].scope_calls_eval /\ is_sloppy(h, s)
has_this_declaration(h, s) ==
    (is_function_scope(h, s) /\ ~h.s[s].is_arrow) \/ is_module_scope(h, s)

\* Scope::SetDefaults and DeclarationScope::SetDefaults.
SetDefaults(scope_type, outer, is_decl, is_arrow) ==
    [scope_type |-> scope_type, outer_scope |-> outer,
     inner_scope |-> Null, sibling |-> Null, unresolved |-> Null,
     variables |-> [n \in MapNames |-> Null],
     locals |-> <<>>, decls |-> <<>>, params |-> <<>>,
     sloppy_block_function_map |-> {},
     regular_imports |-> {}, regular_exports |-> {},
     num_stack_slots |-> 0, num_heap_slots |-> MIN_CONTEXT_SLOTS,
     strict |-> FALSE,
     scope_calls_eval |-> FALSE, inner_scope_calls_eval |-> FALSE,
     force_context_allocation |-> FALSE,
     is_debug_evaluate_scope |-> FALSE,
     is_declaration_scope |-> is_decl, is_arrow |-> is_arrow,
     has_simple_parameters |-> TRUE, has_arguments_parameter |-> FALSE,
     has_rest |-> FALSE,
     receiver_ |-> Null, new_target_ |-> Null, function_ |-> Null,
     arguments_ |-> Null]

\* The scopes of an inner/sibling list, first inner scope first.  fuel stops
\* the walk of a list that a rewriting left cyclic.
RECURSIVE SiblingWalk(_, _, _)
SiblingWalk(h, s, fuel) ==
    IF s = Null \/ fuel = 0 THEN <<>>
    ELSE <<s>> \o SiblingWalk(h, h.s[s].sibling, fuel - 1)

InnerScopes(h, s) == SiblingWalk(h, h.s[s].inner_scope, Len(h.s) + 1)

\* The proxies of an unresolved list, head first.
RECURSIVE ProxyWalk(_, _, _)
ProxyWalk(h, p, fuel) ==
    IF p = Null \/ fuel = 0 THEN <<>>
    ELSE <<p>> \o ProxyWalk(h, h.p[p].next_unresolved, fuel - 1)

UnresolvedList(h, s) == ProxyWalk(h, h.s[s].unresolved, Len(h.p) + 1)

SeqToSet(q) == {q[i] : i \in 1..Len(q)}

\* The scopes of a subtree: s and what the inner lists reach from it.
RECURSIVE Descendants(_, _)
Descendants(h, s) ==
    {s} \cup UNION {Descendants(h, c) : c \in SeqToSet(InnerScopes(h, s))}

AddInnerScope(h, outer, inner) ==
    [h EXCEPT !.s[inner].sibling = h.s[outer].inner_scope,
              !.s[outer].inner_scope = inner]

RECURSIVE RemoveInnerWalk(_, _, _, _)
RemoveInnerWalk(h, scope, inner, fuel) ==
    IF scope = Null \/ fuel = 0 THEN h
    ELSE IF h.s[scope].sibling = inner
         THEN [h EXCEPT !.s[scope].sibling = h.s[inner].sibling]
         ELSE RemoveInnerWalk(h, h.s[scope].sibling, inner, fuel - 1)

RemoveInnerScope(h, outer, inner) ==
    IF h.s[outer].inner_scope = inner
    THEN [h EXCEPT !.s[outer].inner_scope = h.s[inner].sibling]
    ELSE RemoveInnerWalk(h, h.s[outer].inner_scope, inner, Len(h.s) + 1)

RECURSIVE RecordEvalOuter(_, _)
RecordEvalOuter(h, s) ==
    IF s = Null THEN h
    ELSE RecordEvalOuter([h EXCEPT !.s[s].inner_scope_calls_eval = TRUE],
                         h.s[s].outer_scope)

RecordEvalCall(h, s) ==
    RecordEvalOuter([h EXCEPT !.s[s].scope_calls_eval = TRUE,
                              !.s[s].inner_scope_calls_eval = TRUE],
                    h.s[s].outer_scope)

RECURSIVE GetDeclarationScope(_, _)
GetDeclarationScope(h, s) ==
    IF is_declaration_scope(h, s) THEN s
    ELSE GetDeclarationScope(h, h.s[s].outer_scope)

RECURSIVE GetClosureScope(_, _)
GetClosureScope(h, s) ==
    IF is_declaration_scope(h, s) /\ ~is_block_scope(h, s) THEN s
    ELSE GetClosureScope(h, h.s[s].outer_scope)

\* Scope::Scope(Zone*, Scope* outer_scope, ScopeType) and the
\* DeclarationScope constructor on top of it.
NewScope(h, outer, scope_type, is_decl, is_arrow) ==
    LET id == Len(h.s) + 1
        fresh == [SetDefaults(scope_type, outer, is_decl, is_arrow) EXCEPT
                    !.strict = h.s[outer].strict,
                    !.force_context_allocation =
                        scope_type # "FUNCTION" /\ h.s[outer].force_context_allocation]
    IN  AddInnerScope([h EXCEPT !.s = Append(@, fresh)], outer, id)

\* ------------------------------------------------------------- VariableMap
VariableMapLookup(h, s, name) ==
    IF name \in MapNames THEN h.s[s].variables[name] ELSE Null

VariableMapDeclare(h, map, scope, name, mode, kind, maybe_assigned) ==
    IF h.s[map].variables[name] # Null
    THEN [h |-> h, var |-> h.s[map].variables[name], added |-> FALSE]
    ELSE LET id == Len(h.v) + 1
         IN  [h |-> [h EXCEPT !.v = Append(@, NewVariable(scope, name, mode, kind,
                                                         maybe_assigned)),
                              !.s[map].variables[name] = id],
              var |-> id, added |-> TRUE]

occupancy(h, s) == Cardinality({n \in MapNames : h.s[s].variables[n] # Null})

AddLocal(h, s, var) == [h EXCEPT !.s[s].locals = Append(@, var)]

Declare(h, s, name, mode, kind, maybe_assigned) ==
    LET r == VariableMapDeclare(h, s, s, name, mode, kind, maybe_assigned)
    IN  [h |-> IF r.added THEN AddLocal(r.h, s, r.var) ELSE r.h, var |-> r.var]

LookupLocal(h, s, name) == VariableMapLookup(h, s, name)

\* --------------------------------------------------------------- proxies
NewProxy(name, is_assigned) ==
    [name |-> name, is_assigned |-> is_assigned, var |-> Null,
     next_unresolved |-> Null]

is_resolved(h, p) == h.p[p].var # Null

BindTo(h, p, var) ==
    [h EXCEPT !.p[p].var = var, !.v[var].is_used = TRUE]

AddUnresolved(h, s, p) ==
    [h EXCEPT !.p[p].next_unresolved = h.s[s].unresolved,
              !.s[s].unresolved = p]

NewUnresolved(h, s, name, is_assigned) ==
    AddUnresolved([h EXCEPT !.p = Append(@, NewProxy(name, is_assigned))],
                  s, Len(h.p) + 1)

RECURSIVE RemoveUnresolvedWalk(_, _, _, _)
RemoveUnresolvedWalk(h, current, var, fuel) ==
    IF current = Null \/ fuel = 0 THEN [h |-> h, ret |-> FALSE]
    ELSE LET next == h.p[current].next_unresolved
         IN  IF var = next
             THEN [h |-> [h EXCEPT !.p[current].next_unresolved =
                                       h.p[next].next_unresolved,
                                   !.p[var].next_unresolved = Null],
                   ret |-> TRUE]
             ELSE RemoveUnresolvedWalk(h, next, var, fuel - 1)

\* RemoveUnresolved that looks at the head of the list only.
RemoveUnresolved_HeadOnly(h, s, var) ==
    IF h.s[s].unresolved = var
    THEN [h |-> [h EXCEPT !.s[s].unresolved = h.p[var].next_unresolved,
                          !.p[var].next_unresolved = Null],
          ret |-> TRUE]
    ELSE [h |-> h, ret |-> FALSE]

RemoveUnresolved(h, s, var) ==
    IF h.s[s].unresolved = var
    THEN [h |-> [h EXCEPT !.s[s].unresolved = h.p[var].next_unresolved,
                          !.p[var].next_unresolved = Null],
          ret |-> TRUE]
    ELSE RemoveUnresolvedWalk(h, h.s[s].unresolved, var, Len(h.p) + 1)

\* ------------------------------------------------------ declaration operations
DeclareThis(h, s) ==
    LET r == Declare(h, s, ThisName, "VAR", "THIS", FALSE)
    IN  [r.h EXCEPT !.s[s].receiver_ = r.var]

DeclareDefaultFunctionVariables(h, s) ==
    LET a == Declare(h, s, ArgumentsName, "VAR", "ARGUMENTS", FALSE)
        n == Declare(a.h, s, NewTargetName, "CONST", "NORMAL", FALSE)
    IN  [n.h EXCEPT !.s[s].arguments_ = a.var, !.s[s].new_target_ = n.var]

\* DeclareFunctionVar that enters the function variable in the scope's
\* variable map like any other declaration.
DeclareFunctionVar_InMap(h, s, name) ==
    LET mode == IF h.s[s].strict THEN "CONST" ELSE "CONST_LEGACY"
        r == Declare(h, s, name, mode, "NORMAL", FALSE)
    IN  [r.h EXCEPT !.s[s].function_ = r.var]

DeclareFunctionVar(h, s, name) ==
    LET mode == IF h.s[s].strict THEN "CONST" ELSE "CONST_LEGACY"
        id == Len(h.v) + 1
    IN  [h EXCEPT !.v = Append(@, NewVariable(s, name, mode, "NORMAL", FALSE)),
                  !.s[s].function_ = id]

NewTemporary(h, s, name) ==
    LET scope == GetClosureScope(h, s)
        id == Len(h.v) + 1
    IN  [h |-> AddLocal([h EXCEPT !.v = Append(@, NewVariable(scope, name, "TEMPORARY",
                                                            "NORMAL", FALSE))],
                        scope, id),
         var |-> id]

DeclareParameter(h, s, name, mode) ==
    LET r == IF mode = "TEMPORARY" THEN NewTemporary(h, s, name)
             ELSE Declare(h, s, name, mode, "NORMAL", FALSE)
    IN  [r.h EXCEPT !.s[s].params = Append(@, r.var),
                    !.s[s].has_arguments_parameter = @ \/ name = ArgumentsName]

DeclareLocal(h, s, name, mode, kind, maybe_assigned) ==
    Declare(h, s, name, mode, kind, maybe_assigned)

\* DeclareVariable that takes a redeclaration for a conflict only when the
\* new declaration is lexical.
DeclareVariableHere_NewModeOnly(h, s, decl, mode, allow_harmony_restrictive_generators) ==
    LET name == h.p[decl.proxy].name
        finish(h1, var, redefinition) ==
            [h |-> BindTo([h1 EXCEPT !.s[s].decls = Append(@, decl)], decl.proxy, var),
             var |-> var, ok |-> TRUE, redefinition |-> redefinition]
    IN  IF is_eval_scope(h, s) /\ is_sloppy(h, s) /\ mode = "VAR"
        THEN LET id == Len(h.v) + 1
                 h1 == [h EXCEPT !.v = Append(@, NewVariable(s, name, mode, "NORMAL",
                                                            FALSE))]
             IN  finish(AllocateTo(h1, id, "LOOKUP", -1), id, FALSE)
        ELSE LET var == LookupLocal(h, s, name)
                 duplicate_allowed ==
                     /\ is_sloppy(h, s) /\ decl.is_function
                     /\ h.v[var].kind = "FUNCTION"
                     /\ name \in h.s[GetDeclarationScope(h, s)].sloppy_block_function_map
                     /\ decl.function_kind # "kAsyncFunction"
                     /\ ~(allow_harmony_restrictive_generators
                          /\ decl.function_kind = "kGeneratorFunction")
             IN  IF var = Null
                 THEN LET r == DeclareLocal(h, s, name, mode,
                                            IF decl.is_function THEN "FUNCTION"
                                            ELSE "NORMAL", FALSE)
                      IN  finish(r.h, r.var, FALSE)
                 ELSE IF IsLexicalVariableMode(mode)
                 THEN IF duplicate_allowed THEN finish(h, var, TRUE)
                      ELSE [h |-> h, var |-> Null, ok |-> FALSE, redefinition |-> FALSE]
                 ELSE IF mode = "VAR"
                 THEN finish(set_maybe_assigned(h, var), var, FALSE)
                 ELSE finish(h, var, FALSE)

\* DeclareVariable that permits the redefinition of a block function without
\* looking at the sloppy_block_function_map.
DeclareVariableHere_AnyBlockFunction(h, s, decl, mode, allow_harmony_restrictive_generators) ==
    LET name == h.p[decl.proxy].name
        finish(h1, var, redefinition) ==
            [h |-> BindTo([h1 EXCEPT !.s[s].decls = Append(@, decl)], decl.proxy, var),
             var |-> var, ok |-> TRUE, redefinition |-> redefinition]
    IN  IF is_eval_scope(h, s) /\ is_sloppy(h, s) /\ mode = "VAR"
        THEN LET id == Len(h.v) + 1
                 h1 == [h EXCEPT !.v = Append(@, NewVariable(s, name, mode, "NORMAL",
                                                            FALSE))]
             IN  finish(AllocateTo(h1, id, "LOOKUP", -1), id, FALSE)
        ELSE LET var == LookupLocal(h, s, name)
                 duplicate_allowed ==
                     /\ is_sloppy(h, s) /\ decl.is_function
                     /\ h.v[var].kind = "FUNCTION"
                     /\ decl.function_kind # "kAsyncFunction"
                     /\ ~(allow_harmony_restrictive_generators
                          /\ decl.function_kind = "kGeneratorFunction")
             IN  IF var = Null
                 THEN LET r == DeclareLocal(h, s, name, mode,
                                            IF decl.is_function THEN "FUNCTION"
                                            ELSE "NORMAL", FALSE)
                      IN  finish(r.h, r.var, FALSE)
                 ELSE IF IsLexicalVariableMode(mode)
                         \/ IsLexicalVariableMode(h.v[var].mode)
                 THEN IF duplicate_allowed THEN finish(h, var, TRUE)
                      ELSE [h |-> h, var |-> Null, ok |-> FALSE, redefinition |-> FALSE]
                 ELSE IF mode = "VAR"
                 THEN finish(set_maybe_assigned(h, var), var, FALSE)
                 ELSE finish(h, var, FALSE)

\* A Declaration node: decl = [proxy, scope, is_function, function_kind].
\* The result is [h, var, ok, redefinition]: ok = FALSE is the C++
\* "*ok = false; return nullptr", redefinition the out-parameter
\* sloppy_mode_block_scope_function_redefinition.
DeclareVariableHere(h, s, decl, mode, allow_harmony_restrictive_generators) ==
    LET name == h.p[decl.proxy].name
        finish(h1, var, redefinition) ==
            [h |-> BindTo([h1 EXCEPT !.s[s].decls = Append(@, decl)], decl.proxy, var),
             var |-> var, ok |-> TRUE, redefinition |-> redefinition]
    IN  IF is_eval_scope(h, s) /\ is_sloppy(h, s) /\ mode = "VAR"
        THEN LET id == Len(h.v) + 1
                 h1 == [h EXCEPT !.v = Append(@, NewVariable(s, name, mode, "NORMAL",
                                                            FALSE))]
             IN  finish(AllocateTo(h1, id, "LOOKUP", -1), id, FALSE)
        ELSE LET var == LookupLocal(h, s, name)
                 duplicate_allowed ==
                     /\ is_sloppy(h, s) /\ decl.is_function
                     /\ h.v[var].kind = "FUNCTION"
                     /\ name \in h.s[GetDeclarationScope(h, s)].sloppy_block_function_map
                     /\ decl.function_kind # "kAsyncFunction"
                     /\ ~(allow_harmony_restrictive_generators
                          /\ decl.function_kind = "kGeneratorFunction")
             IN  IF var = Null
                 THEN LET r == DeclareLocal(h, s, name, mode,
                                            IF decl.is_function THEN "FUNCTION"
                                            ELSE "NORMAL", FALSE)
                      IN  finish(r.h, r.var, FALSE)
                 ELSE IF IsLexicalVariableMode(mode)
                         \/ IsLexicalVariableMode(h.v[var].mode)
                 THEN IF duplicate_allowed THEN finish(h, var, TRUE)
                      ELSE [h |-> h, var |-> Null, ok |-> FALSE, redefinition |-> FALSE]
                 ELSE IF mode = "VAR"
                 THEN finish(set_maybe_assigned(h, var), var, FALSE)
                 ELSE finish(h, var, FALSE)

\* DeclareVariable that does not hoist a var to the declaration scope.
DeclareVariable_NotHoisting(h, s, decl, mode, allow_harmony_restrictive_generators) ==
    DeclareVariableHere(h, s, decl, mode, allow_harmony_restrictive_generators)

DeclareVariable(h, s, decl, mode, allow_harmony_restrictive_generators) ==
    IF mode = "VAR" /\ ~is_declaration_scope(h, s)
    THEN DeclareVariableHere(h, GetDeclarationScope(h, s), decl, mode,
                             allow_harmony_restrictive_generators)
    ELSE DeclareVariableHere(h, s, decl, mode, allow_harmony_restrictive_generators)

\* SloppyBlockFunctionMap::Declare, called on the map of scope s: the map is
\* kept as the set of its keys.
SloppyBlockFunctionMapDeclare(h, s, name) ==
    [h EXCEPT !.s[s].sloppy_block_function_map = @ \cup {name}]

\* The do-while of CheckConflictingVarDeclarations that stops before the
\* declaration scope instead of after it.
RECURSIVE ConflictWalk_BeforeDeclarationScope(_, _, _)
ConflictWalk_BeforeDeclarationScope(h, current, name) ==
    LET other_var == VariableMapLookup(h, current, name)
    IN  IF is_declaration_scope(h, current) THEN FALSE
        ELSE IF other_var # Null /\ IsLexicalVariableMode(h.v[other_var].mode)
        THEN TRUE
        ELSE ConflictWalk_BeforeDeclarationScope(h, h.s[current].outer_scope, name)

\* Lines 861-870: the do-while of CheckConflictingVarDeclarations, from scope
\* current outwards until the declaration scope has been looked at.
RECURSIVE ConflictWalk(_, _, _)
ConflictWalk(h, current, name) ==
    LET other_var == VariableMapLookup(h, current, name)
    IN  IF other_var # Null /\ IsLexicalVariableMode(h.v[other_var].mode) THEN TRUE
        ELSE IF is_declaration_scope(h, current) THEN FALSE
        ELSE ConflictWalk(h, h.s[current].outer_scope, name)

\* Returns the position in decls of the declaration the C++ returns, Null
\* for nullptr.
RECURSIVE CheckConflictingFrom(_, _, _)
CheckConflictingFrom(h, s, i) ==
    IF i > Len(h.s[s].decls) THEN Null
    ELSE LET decl == h.s[s].decls[i]
             mode == h.v[h.p[decl.proxy].var].mode
             current == IF IsLexicalVariableMode(mode)
                        THEN h.s[decl.scope].outer_scope ELSE decl.scope
         IN  IF IsLexicalVariableMode(mode) /\ ~is_block_scope(h, s)
             THEN CheckConflictingFrom(h, s, i + 1)
             ELSE IF ConflictWalk(h, current, h.p[decl.proxy].name) THEN i
             ELSE CheckConflictingFrom(h, s, i + 1)

CheckConflictingVarDeclarations(h, s) == CheckConflictingFrom(h, s, 1)

\* ------------------------------------------------------- tree rewriting
\* PropagateUsageFlagsToScope that passes nothing on.
PropagateUsageFlagsToScope_Dropping(h, s, other) == h

PropagateUsageFlagsToScope(h, s, other) ==
    IF calls_eval(h, s) THEN RecordEvalCall(h, other) ELSE h

RECURSIVE SetOuterAlong(_, _, _, _)
\* Lines 497-503: gives every scope of the list starting at scope the outer
\* scope o and returns [h, lastscope], the list's last scope.
SetOuterAlong(h, scope, o, fuel) ==
    LET h1 == [h EXCEPT !.s[scope].outer_scope = o]
    IN  IF h.s[scope].sibling = Null \/ fuel = 0
        THEN [h |-> h1, lastscope |-> scope]
        ELSE SetOuterAlong(h1, h.s[scope].sibling, o, fuel - 1)

RECURSIVE LastProxy(_, _, _)
LastProxy(h, p, fuel) ==
    IF h.p[p].next_unresolved = Null \/ fuel = 0 THEN p
    ELSE LastProxy(h, h.p[p].next_unresolved, fuel - 1)

FinalizeKeeps(h, b) ==
    occupancy(h, b) > 0 \/ (is_declaration_scope(h, b) /\ calls_sloppy_eval(h, b))

\* The reparenting that does not link the moved scopes to the inner scopes
\* the outer scope already has.
ReparentInnerScopes_DroppingSiblings(h, b) ==
    LET o == h.s[b].outer_scope
    IN  IF h.s[b].inner_scope = Null THEN h
        ELSE LET r == SetOuterAlong(h, h.s[b].inner_scope, o, Len(h.s) + 1)
             IN  [r.h EXCEPT !.s[o].inner_scope = h.s[b].inner_scope,
                             !.s[b].inner_scope = Null]

ReparentInnerScopes(h, b) ==
    LET o == h.s[b].outer_scope
    IN  IF h.s[b].inner_scope = Null THEN h
        ELSE LET r == SetOuterAlong(h, h.s[b].inner_scope, o, Len(h.s) + 1)
             IN  [r.h EXCEPT !.s[r.lastscope].sibling = h.s[o].inner_scope,
                             !.s[o].inner_scope = h.s[b].inner_scope,
                             !.s[b].inner_scope = Null]

MoveUnresolved(h, b) ==
    LET o == h.s[b].outer_scope
    IN  IF h.s[b].unresolved = Null THEN h
        ELSE LET h1 == IF h.s[o].unresolved # Null
                       THEN [h EXCEPT !.p[LastProxy(h, h.s[b].unresolved, Len(h.p) + 1)]
                                          .next_unresolved = h.s[o].unresolved]
                       ELSE h
             IN  [h1 EXCEPT !.s[o].unresolved = h.s[b].unresolved,
                            !.s[b].unresolved = Null]

\* Returns [h, ret]: ret is the scope itself when it is kept, Null when removed.
FinalizeBlockScope(h, b) ==
    IF FinalizeKeeps(h, b) THEN [h |-> h, ret |-> b]
    ELSE LET o == h.s[b].outer_scope
             h1 == RemoveInnerScope(h, o, b)
             h2 == ReparentInnerScopes(h1, b)
             h3 == MoveUnresolved(h2, b)
             h4 == PropagateUsageFlagsToScope(h3, b, o)
         IN  [h |-> [h4 EXCEPT !.s[b].num_heap_slots = 0], ret |-> Null]

\* ReplaceOuterScope without the removal from the old outer scope's list.
ReplaceOuterScope_NotRemoving(h, s, outer) ==
    [AddInnerScope(h, outer, s) EXCEPT !.s[s].outer_scope = outer]

\* Scope::ReplaceOuterScope(Scope* outer).
ReplaceOuterScope(h, s, outer) ==
    LET h1 == RemoveInnerScope(h, h.s[s].outer_scope, s)
        h2 == AddInnerScope(h1, outer, s)
    IN  [h2 EXCEPT !.s[s].outer_scope = outer]

\* ---------------------------------------------------------------- Snapshot
\* Scope::Snapshot::Snapshot(Scope* scope).
Snapshot(h, scope) ==
    [outer_scope_ |-> scope,
     top_inner_scope_ |-> h.s[scope].inner_scope,
     top_unresolved_ |-> h.s[scope].unresolved,
     top_local_ |-> Len(h.s[GetClosureScope(h, scope)].locals),
     top_decl_ |-> Len(h.s[GetClosureScope(h, scope)].decls)]

RECURSIVE SetOuterUntil(_, _, _, _, _)
\* Lines 536-541: gives the scopes from inner_scope up to the one whose
\* sibling is top the outer scope new_parent; returns [h, lastscope].
SetOuterUntil(h, inner_scope, new_parent, top, fuel) ==
    LET h1 == [h EXCEPT !.s[inner_scope].outer_scope = new_parent]
    IN  IF h.s[inner_scope].sibling = top \/ h.s[inner_scope].sibling = Null
           \/ fuel = 0
        THEN [h |-> h1, lastscope |-> inner_scope]
        ELSE SetOuterUntil(h1, h.s[inner_scope].sibling, new_parent, top, fuel - 1)

RECURSIVE LastProxyBefore(_, _, _, _)
\* Lines 552-555: the proxy of the list whose next proxy is top.
LastProxyBefore(h, p, top, fuel) ==
    IF h.p[p].next_unresolved = top \/ h.p[p].next_unresolved = Null \/ fuel = 0
    THEN p
    ELSE LastProxyBefore(h, h.p[p].next_unresolved, top, fuel - 1)

\* The reparenting that hands new_parent the scopes added since the snapshot
\* and leaves their outer_scope_ as it was.
ReparentScopes_KeepingOuter(h, snap, new_parent) ==
    LET inner_scope == h.s[new_parent].sibling
    IN  IF inner_scope = snap.top_inner_scope_ THEN h
        ELSE LET r == SetOuterUntil(h, inner_scope, new_parent,
                                    snap.top_inner_scope_, Len(h.s) + 1)
             IN  [h EXCEPT !.s[new_parent].inner_scope = inner_scope,
                           !.s[r.lastscope].sibling = Null,
                           !.s[new_parent].sibling = snap.top_inner_scope_]

\* Lines 534-548.
ReparentScopes(h, snap, new_parent) ==
    LET inner_scope == h.s[new_parent].sibling
    IN  IF inner_scope = snap.top_inner_scope_ THEN h
        ELSE LET r == SetOuterUntil(h, inner_scope, new_parent,
                                    snap.top_inner_scope_, Len(h.s) + 1)
             IN  [r.h EXCEPT !.s[new_parent].inner_scope = inner_scope,
                             !.s[r.lastscope].sibling = Null,
                             !.s[new_parent].sibling = snap.top_inner_scope_]

\* Lines 550-558.
ReparentUnresolved(h, snap, new_parent) ==
    LET outer == snap.outer_scope_
    IN  IF h.s[outer].unresolved = snap.top_unresolved_ THEN h
        ELSE LET lastp == LastProxyBefore(h, h.s[outer].unresolved,
                                          snap.top_unresolved_, Len(h.p) + 1)
             IN  [h EXCEPT !.p[lastp].next_unresolved = Null,
                           !.s[new_parent].unresolved = h.s[outer].unresolved,
                           !.s[outer].unresolved = snap.top_unresolved_]

\* VariableMap::Remove and VariableMap::Add: both go by the variable's name.
VariableMapRemove(h, s, var) == [h EXCEPT !.s[s].variables[h.v[var].name] = Null]
VariableMapAdd(h, s, var) == [h EXCEPT !.s[s].variables[h.v[var].name] = var]

\* Lines 567-575: one turn of the loop over the outer closure's locals.
ReparentLocal(h, outer_closure, new_parent, local) ==
    LET h1 == AddLocal([h EXCEPT !.v[local].scope = new_parent], new_parent, local)
    IN  IF h.v[local].mode = "VAR"
        THEN VariableMapAdd(VariableMapRemove(h1, outer_closure, local),
                            new_parent, local)
        ELSE h1

RECURSIVE ReparentLocalsFrom(_, _, _, _)
\* Lines 566-576: the loop, from position i (1-based) of the locals.
ReparentLocalsFrom(h, outer_closure, new_parent, i) ==
    IF i > Len(h.s[outer_closure].locals) THEN h
    ELSE ReparentLocalsFrom(
             ReparentLocal(h, outer_closure, new_parent, h.s[outer_closure].locals[i]),
             outer_closure, new_parent, i + 1)

\* Scope::Snapshot::Reparent(DeclarationScope* new_parent).
Reparent(h, snap, new_parent) ==
    LET h1 == ReparentScopes(h, snap, new_parent)
        h2 == ReparentUnresolved(h1, snap, new_parent)
        outer_closure == GetClosureScope(h2, snap.outer_scope_)
        h3 == ReparentLocalsFrom(h2, outer_closure, new_parent, snap.top_local_ + 1)
    IN  [h3 EXCEPT !.s[outer_closure].locals = SubSeq(@, 1, snap.top_local_),
                   !.s[outer_closure].decls = SubSeq(@, 1, snap.top_decl_)]

\* ----------------------------------------------------------------- resolver
IsGlobalObjectProperty(h, var) ==
    \/ /\ h.v[var].mode \in {"VAR", "DYNAMIC_GLOBAL"}
       /\ h.v[var].scope # Null
       /\ is_script_scope(h, h.v[var].scope)
    \/ h.v[var].mode = "DYNAMIC_GLOBAL"

NonLocal(h, s, name, mode) ==
    LET r == VariableMapDeclare(h, s, Null, name, mode, "NORMAL", FALSE)
    IN  [h |-> AllocateTo(r.h, r.var, "LOOKUP", -1), var |-> r.var]

\* A DeclareDynamicGlobal that declares a DYNAMIC variable.
DeclareDynamicGlobal_AsDynamic(h, s, name, kind) ==
    LET r == VariableMapDeclare(h, s, s, name, "DYNAMIC", kind, FALSE)
    IN  [h |-> r.h, var |-> r.var]

DeclareDynamicGlobal(h, s, name, kind) ==
    LET r == VariableMapDeclare(h, s, s, name, "DYNAMIC_GLOBAL", kind, FALSE)
    IN  [h |-> r.h, var |-> r.var]

LookupFunctionVar(h, s, name) ==
    IF h.s[s].function_ # Null /\ h.v[h.s[s].function_].name = name
    THEN h.s[s].function_
    ELSE Null

\* A with scope that leaves the variable found outside as it is.
LookupThroughWith_Transparent(h, s, proxy, var) == [h |-> h, var |-> var]

\* A with scope that does not mark the variable found outside it.
LookupThroughWith_NotMarking(h, s, proxy, var) ==
    NonLocal(h, s, h.p[proxy].name, "DYNAMIC")

\* Lines 1301-1315: what a with scope does with the variable found outside it.
LookupThroughWith(h, s, proxy, var) ==
    LET h1 == IF ~is_dynamic(h, var) /\ IsUnallocated(h, var)
              THEN LET u == ForceContextAllocation(set_is_used(h, var), var)
                   IN  IF h.p[proxy].is_assigned THEN set_maybe_assigned(u, var) ELSE u
              ELSE h
    IN  NonLocal(h1, s, h.p[proxy].name, "DYNAMIC")

\* A sloppy eval that leaves the variable found outside as it is.
LookupThroughEval_Transparent(h, s, proxy, var) == [h |-> h, var |-> var]

\* A sloppy eval whose DYNAMIC_LOCAL stand-in does not remember the variable
\* it stands for.
LookupThroughEval_Forgetting(h, s, proxy, var) ==
    IF IsGlobalObjectProperty(h, var)
    THEN NonLocal(h, s, h.p[proxy].name, "DYNAMIC_GLOBAL")
    ELSE IF is_dynamic(h, var) THEN [h |-> h, var |-> var]
    ELSE NonLocal(h, s, h.p[proxy].name, "DYNAMIC_LOCAL")

\* Lines 1317-1334: what a declaration scope that calls sloppy eval does with
\* the variable found outside it.
LookupThroughEval(h, s, proxy, var) ==
    IF IsGlobalObjectProperty(h, var)
    THEN NonLocal(h, s, h.p[proxy].name, "DYNAMIC_GLOBAL")
    ELSE IF is_dynamic(h, var) THEN [h |-> h, var |-> var]
    ELSE LET n == NonLocal(h, s, h.p[proxy].name, "DYNAMIC_LOCAL")
         IN  [h |-> [n.h EXCEPT !.v[n.var].local_if_not_shadowed = var],
              var |-> n.var]

\* The post-processing without the forced context allocation of a variable
\* that a function scope finds outside itself.
LookupPostProcess_NoForce(h, s, proxy, var) ==
    IF is_this(h, var) THEN [h |-> h, var |-> var]
    ELSE IF is_with_scope(h, s) THEN LookupThroughWith(h, s, proxy, var)
    ELSE IF calls_sloppy_eval(h, s) /\ is_declaration_scope(h, s)
    THEN LookupThroughEval(h, s, proxy, var)
    ELSE [h |-> h, var |-> var]

\* The post-processing that treats the receiver like any other variable.
LookupPostProcess_ShadowingThis(h, s, proxy, var) ==
    LET h1 == IF is_function_scope(h, s) /\ ~is_dynamic(h, var)
              THEN ForceContextAllocation(h, var) ELSE h
    IN  IF is_with_scope(h1, s) THEN LookupThroughWith(h1, s, proxy, var)
        ELSE IF calls_sloppy_eval(h1, s) /\ is_declaration_scope(h1, s)
        THEN LookupThroughEval(h1, s, proxy, var)
        ELSE [h |-> h1, var |-> var]

\* Lines 1293-1336: the post-processing of the variable the outer scopes found.
LookupPostProcess(h, s, proxy, var) ==
    LET h1 == IF is_function_scope(h, s) /\ ~is_dynamic(h, var)
              THEN ForceContextAllocation(h, var) ELSE h
    IN  IF is_this(h1, var) THEN [h |-> h1, var |-> var]
        ELSE IF is_with_scope(h1, s) THEN LookupThroughWith(h1, s, proxy, var)
        ELSE IF calls_sloppy_eval(h1, s) /\ is_declaration_scope(h1, s)
        THEN LookupThroughEval(h1, s, proxy, var)
        ELSE [h |-> h1, var |-> var]

RECURSIVE LookupRecursive(_, _, _, _, _)
LookupRecursive(h, s, proxy, declare_free, outer_scope_end) ==
    LET name == h.p[proxy].name
    IN  IF h.s[s].is_debug_evaluate_scope
        THEN IF ~declare_free THEN [h |-> h, var |-> Null]
             ELSE NonLocal(h, s, name, "DYNAMIC")
        ELSE IF LookupLocal(h, s, name) # Null
        THEN [h |-> h, var |-> LookupLocal(h, s, name)]
        ELSE IF is_function_scope(h, s) /\ LookupFunctionVar(h, s, name) # Null
        THEN IF calls_sloppy_eval(h, s) THEN NonLocal(h, s, name, "DYNAMIC")
             ELSE [h |-> h, var |-> LookupFunctionVar(h, s, name)]
        ELSE IF h.s[s].outer_scope = outer_scope_end
        THEN IF ~declare_free THEN [h |-> h, var |-> Null]
             ELSE DeclareDynamicGlobal(h, s, name, "NORMAL")
        ELSE LET r == LookupRecursive(h, h.s[s].outer_scope, proxy, declare_free,
                                      outer_scope_end)
             IN  IF r.var = Null THEN r
                 ELSE LookupPostProcess(r.h, s, proxy, r.var)

ResolveTo(h, proxy, var) ==
    BindTo(IF h.p[proxy].is_assigned THEN set_maybe_assigned(h, var) ELSE h,
           proxy, var)

ResolveVariable(h, s, proxy) ==
    IF is_resolved(h, proxy) THEN h
    ELSE LET r == LookupRecursive(h, s, proxy, TRUE, Null)
         IN  ResolveTo(r.h, proxy, r.var)

RECURSIVE ResolveProxies(_, _, _, _)
ResolveProxies(h, s, proxy, fuel) ==
    IF proxy = Null \/ fuel = 0 THEN h
    ELSE ResolveProxies(ResolveVariable(h, s, proxy), s,
                        h.p[proxy].next_unresolved, fuel - 1)

RECURSIVE ResolveVariablesRecursively(_, _)
RECURSIVE ResolveInnerScopes(_, _, _)
ResolveInnerScopes(h, scope, fuel) ==
    IF scope = Null \/ fuel = 0 THEN h
    ELSE ResolveInnerScopes(ResolveVariablesRecursively(h, scope),
                            h.s[scope].sibling, fuel - 1)

ResolveVariablesRecursively(h, s) ==
    ResolveInnerScopes(ResolveProxies(h, s, h.s[s].unresolved, Len(h.p) + 1),
                       h.s[s].inner_scope, Len(h.s) + 1)

\* The body of the loop with every proxy pushed, those included for which a
\* variable was found.
FetchProxy_PushingAll(h, s, max_outer_scope, info, proxy, stack) ==
    IF is_resolved(h, proxy) THEN [h |-> h, stack |-> stack]
    ELSE LET r == LookupRecursive(h, s, proxy, FALSE,
                                  h.s[max_outer_scope].outer_scope)
         IN  [h |-> [r.h EXCEPT !.p[proxy].next_unresolved = stack],
              stack |-> proxy]

\* Lines 1400-1408: one proxy of the unresolved list.  A resolved proxy is
\* skipped; one for which no variable is found inside max_outer_scope is
\* pushed on the stack; one for which a variable is found is bound when there
\* is a ParseInfo.
FetchProxy(h, s, max_outer_scope, info, proxy, stack) ==
    IF is_resolved(h, proxy) THEN [h |-> h, stack |-> stack]
    ELSE LET r == LookupRecursive(h, s, proxy, FALSE,
                                  h.s[max_outer_scope].outer_scope)
         IN  IF r.var = Null
             THEN [h |-> [r.h EXCEPT !.p[proxy].next_unresolved = stack],
                   stack |-> proxy]
             ELSE IF info
             THEN [h |-> ResolveTo(r.h, proxy, r.var), stack |-> stack]
             ELSE [h |-> r.h, stack |-> stack]

\* Lines 1397-1409: the loop over the unresolved list; next is read before
\* the proxy is relinked.
RECURSIVE FetchProxies(_, _, _, _, _, _, _)
FetchNextProxy(r, s, max_outer_scope, info, next, fuel) ==
    FetchProxies(r.h, s, max_outer_scope, info, next, r.stack, fuel)

FetchProxies(h, s, max_outer_scope, info, proxy, stack, fuel) ==
    IF proxy = Null \/ fuel = 0 THEN [h |-> h, stack |-> stack]
    ELSE FetchNextProxy(FetchProxy(h, s, max_outer_scope, info, proxy, stack),
                        s, max_outer_scope, info, h.p[proxy].next_unresolved,
                        fuel - 1)

\* The record of one call: the scope, the incoming stack, the zone before,
\* the returned stack and the zone after.
FetchCall(h, s, stack, q) ==
    [scope |-> s, stack |-> stack, pre |-> h, ret |-> q.stack, post |-> q.h]

FetchRecordCall(h, s, stack, q) ==
    [h |-> q.h, stack |-> q.stack,
     calls |-> <<FetchCall(h, s, stack, q)>> \o q.calls]

FetchJoinCalls(r, q) ==
    [h |-> q.h, stack |-> q.stack, calls |-> r.calls \o q.calls]

\* FetchFreeVariables returns the zone, the stack and, for the record, the
\* calls it made: the call itself and each recursive call.
RECURSIVE FetchFreeVariables(_, _, _, _, _)
RECURSIVE FetchInnerScopes(_, _, _, _, _, _)
FetchNextInnerScope(r, sibling, max_outer_scope, info, fuel) ==
    FetchJoinCalls(r, FetchInnerScopes(r.h, sibling, max_outer_scope, info,
                                       r.stack, fuel))

\* Lines 1414-1416: the inner scopes, each with the stack the one before
\* returned.
FetchInnerScopes(h, scope, max_outer_scope, info, stack, fuel) ==
    IF scope = Null \/ fuel = 0 THEN [h |-> h, stack |-> stack, calls |-> <<>>]
    ELSE FetchNextInnerScope(
             FetchFreeVariables(h, scope, max_outer_scope, info, stack),
             h.s[scope].sibling, max_outer_scope, info, fuel - 1)

\* Lines 1411-1416: the unresolved list is cleared before the inner scopes.
FetchAfterProxies(r, s, max_outer_scope, info) ==
    FetchInnerScopes([r.h EXCEPT !.s[s].unresolved = Null],
                     r.h.s[s].inner_scope, max_outer_scope, info, r.stack,
                     Len(r.h.s) + 1)

FetchFreeVariables(h, s, max_outer_scope, info, stack) ==
    FetchRecordCall(h, s, stack,
        FetchAfterProxies(
            FetchProxies(h, s, max_outer_scope, info, h.s[s].unresolved,
                         stack, Len(h.p) + 1),
            s, max_outer_scope, info))

\* PropagateScopeInfo walks the tree and marks the inner functions of an asm
\* module; asm modules are not modelled, so the zone is left as it is.
PropagateScopeInfo(h, s) == h

\* ---------------------------------------------------------------- allocator
\* MustAllocate without the test for global-object properties.
MustAllocate_IgnoringGlobals(h, s, var) ==
    LET visible == is_this(h, var) \/ h.v[var].name # EmptyName
        reach == h.s[s].inner_scope_calls_eval \/ is_catch_scope(h, s)
                 \/ is_script_scope(h, s)
        h1 == IF visible /\ reach
              THEN LET u == set_is_used(h, var)
                   IN  IF h.s[s].inner_scope_calls_eval THEN set_maybe_assigned(u, var)
                       ELSE u
              ELSE h
    IN  [h |-> h1, ret |-> h1.v[var].is_used]

\* Returns [h, ret]: MustAllocate marks the variable used when eval, a catch
\* scope or the script scope may reach it.
MustAllocate(h, s, var) ==
    LET visible == is_this(h, var) \/ h.v[var].name # EmptyName
        reach == h.s[s].inner_scope_calls_eval \/ is_catch_scope(h, s)
                 \/ is_script_scope(h, s)
        h1 == IF visible /\ reach
              THEN LET u == set_is_used(h, var)
                   IN  IF h.s[s].inner_scope_calls_eval THEN set_maybe_assigned(u, var)
                       ELSE u
              ELSE h
    IN  [h |-> h1, ret |-> ~IsGlobalObjectProperty(h1, var) /\ h1.v[var].is_used]

\* MustAllocateInContext without the exemption of temporaries.
MustAllocateInContext_TemporariesToo(h, s, var) ==
    IF h.s[s].force_context_allocation THEN TRUE
    ELSE IF is_catch_scope(h, s) THEN TRUE
    ELSE IF is_script_scope(h, s) /\ IsLexicalVariableMode(h.v[var].mode) THEN TRUE
    ELSE h.v[var].force_context_allocation \/ h.s[s].inner_scope_calls_eval

MustAllocateInContext(h, s, var) ==
    IF h.s[s].force_context_allocation THEN TRUE
    ELSE IF h.v[var].mode = "TEMPORARY" THEN FALSE
    ELSE IF is_catch_scope(h, s) THEN TRUE
    ELSE IF is_script_scope(h, s) /\ IsLexicalVariableMode(h.v[var].mode) THEN TRUE
    ELSE h.v[var].force_context_allocation \/ h.s[s].inner_scope_calls_eval

RECURSIVE AllocateStackSlot(_, _, _)
AllocateStackSlot(h, s, var) ==
    IF is_block_scope(h, s)
    THEN AllocateStackSlot(h, GetDeclarationScope(h, h.s[s].outer_scope), var)
    ELSE [AllocateTo(h, var, "LOCAL", h.s[s].num_stack_slots)
            EXCEPT !.s[s].num_stack_slots = @ + 1]

\* AllocateHeapSlot that does not advance num_heap_slots.
AllocateHeapSlot_Reusing(h, s, var) ==
    AllocateTo(h, var, "CONTEXT", h.s[s].num_heap_slots)

AllocateHeapSlot(h, s, var) ==
    [AllocateTo(h, var, "CONTEXT", h.s[s].num_heap_slots)
        EXCEPT !.s[s].num_heap_slots = @ + 1]

\* AllocateParameter that never moves a parameter to the context.
AllocateParameter_NeverInContext(h, s, var, index) ==
    LET m == MustAllocate(h, s, var)
    IN  IF ~m.ret THEN m.h
        ELSE IF IsUnallocated(m.h, var) THEN AllocateTo(m.h, var, "PARAMETER", index)
        ELSE m.h

AllocateParameter(h, s, var, index) ==
    LET m == MustAllocate(h, s, var)
    IN  IF ~m.ret THEN m.h
        ELSE IF MustAllocateInContext(m.h, s, var)
        THEN IF IsUnallocated(m.h, var) THEN AllocateHeapSlot(m.h, s, var) ELSE m.h
        ELSE IF IsUnallocated(m.h, var) THEN AllocateTo(m.h, var, "PARAMETER", index)
        ELSE m.h

num_parameters(h, s) ==
    IF h.s[s].has_rest THEN Len(h.s[s].params) - 1 ELSE Len(h.s[s].params)

\* The parameter positions from the first to the last.
ParameterOrder_Ascending(n) == [k \in 1..n |-> k - 1]

\* The order in which AllocateParameterLocals visits the parameter positions.
ParameterOrder(n) == [k \in 1..n |-> n - k]

RECURSIVE AllocateParametersIn(_, _, _, _)
AllocateParametersIn(h, s, order, uses_sloppy_arguments) ==
    IF order = <<>> THEN h
    ELSE LET i == Head(order)
             var == h.s[s].params[i + 1]
             h1 == IF uses_sloppy_arguments THEN ForceContextAllocation(h, var) ELSE h
         IN  AllocateParametersIn(AllocateParameter(h1, s, var, i), s, Tail(order),
                                  uses_sloppy_arguments)

AllocateParameterLocals(h, s) ==
    LET a == h.s[s].arguments_
        m == IF a # Null THEN MustAllocate(h, s, a) ELSE [h |-> h, ret |-> FALSE]
        used == a # Null /\ m.ret /\ ~h.s[s].has_arguments_parameter
        uses_sloppy_arguments ==
            used /\ is_sloppy(h, s) /\ h.s[s].has_simple_parameters
        h1 == IF a # Null /\ ~used THEN [m.h EXCEPT !.s[s].arguments_ = Null] ELSE m.h
    IN  AllocateParametersIn(h1, s, ParameterOrder(num_parameters(h1, s)),
                             uses_sloppy_arguments)

AllocateReceiver(h, s) ==
    IF ~has_this_declaration(h, s) THEN h
    ELSE AllocateParameter(h, s, h.s[s].receiver_, -1)

AllocateNonParameterLocal(h, s, var) ==
    IF ~IsUnallocated(h, var) THEN h
    ELSE LET m == MustAllocate(h, s, var)
         IN  IF ~m.ret THEN m.h
             ELSE IF MustAllocateInContext(m.h, s, var) THEN AllocateHeapSlot(m.h, s, var)
             ELSE AllocateStackSlot(m.h, s, var)

AllocateLocals(h, s) ==
    LET h1 == IF h.s[s].function_ # Null
              THEN AllocateNonParameterLocal(h, s, h.s[s].function_) ELSE h
        n == IF h1.s[s].new_target_ # Null
             THEN MustAllocate(h1, s, h1.s[s].new_target_)
             ELSE [h |-> h1, ret |-> TRUE]
    IN  IF n.ret THEN n.h ELSE [n.h EXCEPT !.s[s].new_target_ = Null]

RECURSIVE AllocateLocalsFrom(_, _, _)
AllocateLocalsFrom(h, s, i) ==
    IF i > Len(h.s[s].locals) THEN h
    ELSE AllocateLocalsFrom(AllocateNonParameterLocal(h, s, h.s[s].locals[i]), s, i + 1)

\* The allocation of the locals with the function variable taken first.
AllocateNonParameterLocalsAndDeclaredGlobals_FunctionFirst(h, s) ==
    LET h1 == IF is_declaration_scope(h, s) THEN AllocateLocals(h, s) ELSE h
    IN  AllocateLocalsFrom(h1, s, 1)

AllocateNonParameterLocalsAndDeclaredGlobals(h, s) ==
    LET h1 == AllocateLocalsFrom(h, s, 1)
    IN  IF is_declaration_scope(h1, s) THEN AllocateLocals(h1, s) ELSE h1

RECURSIVE AllocateAllTo(_, _, _, _, _)
\* One of the loops of AllocateModuleVariables: every name of the set is
\* looked up in the scope and its variable allocated to the module slot.
AllocateAllTo(h, s, names, location, index) ==
    IF names = {} THEN h
    ELSE LET name == CHOOSE n \in names : TRUE
         IN  AllocateAllTo(AllocateTo(h, LookupLocal(h, s, name), location, index),
                           s, names \ {name}, location, index)

\* ModuleScope::AllocateModuleVariables.
AllocateModuleVariables(h, s) ==
    LET h1 == AllocateAllTo(h, s, h.s[s].regular_imports, "MODULE", 42)
    IN  AllocateAllTo(h1, s, h.s[s].regular_exports, "MODULE", 0)

\* The test that leaves the with scopes out.
must_have_context_NotForWith(h, s) ==
    \/ is_module_scope(h, s)
    \/ (is_function_scope(h, s) /\ calls_sloppy_eval(h, s))
    \/ (is_block_scope(h, s) /\ is_declaration_scope(h, s) /\ calls_sloppy_eval(h, s))

must_have_context(h, s) ==
    \/ is_with_scope(h, s)
    \/ is_module_scope(h, s)
    \/ (is_function_scope(h, s) /\ calls_sloppy_eval(h, s))
    \/ (is_block_scope(h, s) /\ is_declaration_scope(h, s) /\ calls_sloppy_eval(h, s))

\* Lines 1612-1643: AllocateVariablesRecursively on scope s once the
\* recursion into its inner scopes has returned.
AllocateScope(h, s) ==
    LET h1 == IF is_declaration_scope(h, s)
              THEN AllocateReceiver(IF is_module_scope(h, s)
                                    THEN AllocateModuleVariables(h, s)
                                    ELSE IF is_function_scope(h, s)
                                    THEN AllocateParameterLocals(h, s) ELSE h, s)
              ELSE h
        h2 == AllocateNonParameterLocalsAndDeclaredGlobals(h1, s)
    IN  IF h2.s[s].num_heap_slots = MIN_CONTEXT_SLOTS /\ ~must_have_context(h2, s)
        THEN [h2 EXCEPT !.s[s].num_heap_slots = 0]
        ELSE h2

RECURSIVE AllocationOrder(_, _)
RECURSIVE AllocationOrderOfList(_, _, _)
\* Lines 1607-1610: the inner scopes are allocated first, in list order.
AllocationOrderOfList(h, scope, fuel) ==
    IF scope = Null \/ fuel = 0 THEN <<>>
    ELSE AllocationOrder(h, scope)
         \o AllocationOrderOfList(h, h.s[scope].sibling, fuel - 1)

\* The order of a recursion that allocates a scope before its inner scopes.
AllocationOrder_OuterFirst(h, s) ==
    <<s>> \o AllocationOrderOfList(h, h.s[s].inner_scope, Len(h.s) + 1)

\* The scopes in the order in which AllocateVariablesRecursively, called on
\* s, allocates them.
AllocationOrder(h, s) ==
    AllocationOrderOfList(h, h.s[s].inner_scope, Len(h.s) + 1) \o <<s>>

\* ------------------------------------------------- the parser and the pipeline
RECURSIVE AllocateInOrder(_, _)
AllocateInOrder(h, order) ==
    IF order = <<>> THEN h
    ELSE AllocateInOrder(AllocateScope(h, Head(order)), Tail(order))

AllocateVariablesRecursively(h, s) == AllocateInOrder(h, AllocationOrder(h, s))

\* AllocateScopeInfosRecursively serializes the result; the scope infos are
\* not part of the model.
AllocateVariables(h, s) ==
    AllocateVariablesRecursively(
        ResolveVariablesRecursively(PropagateScopeInfo(h, s), s), s)

\* The record of the last operation: what was called on which scope and
\* proxy, what it returned, and the
\* zone as it was before the call.  again: the call repeats, on the same
\* scope and proxy, a RemoveUnresolved that returned true.
NoOp == [op |-> "none", scope |-> Null, proxy |-> Null, ret |-> Null,
         again |-> FALSE, pre |-> Null]

\* The parser holds no snapshot.
NoSnapshot ==
    [taken |-> FALSE,
     obj |-> [outer_scope_ |-> Null, top_inner_scope_ |-> Null,
              top_unresolved_ |-> Null, top_local_ |-> 0, top_decl_ |-> 0],
     zone |-> [s |-> <<>>, v |-> <<>>, p |-> <<>>]]

Init ==
    /\ scopes = <<SetDefaults("SCRIPT", Null, TRUE, FALSE)>>
    /\ variables = <<>>
    /\ proxies = <<>>
    /\ cur = 1
    /\ ok = TRUE
    /\ nops = 0
    /\ pc = "parse"
    /\ todo = <<>>
    /\ done = <<>>
    /\ last = NoOp
    /\ snapshot = NoSnapshot
    /\ tracked = [finalized |-> {}, added |-> {}]

Install(h) ==
    /\ scopes' = h.s
    /\ variables' = h.v
    /\ proxies' = h.p

Parsing(max) == pc = "parse" /\ ok /\ nops < max

\* Nothing of the scope's body has been parsed yet.
AtStart(s) ==
    /\ scopes[s].inner_scope = Null
    /\ scopes[s].unresolved = Null
    /\ scopes[s].decls = <<>>
    /\ ~scopes[s].scope_calls_eval

\* The parser enters a function: NewFunctionScope declares the receiver and
\* the default function variables of every function that is not an arrow.
DoFunctionScope(max, arrows) ==
    \E arrow \in arrows :
        /\ Parsing(max)
        /\ LET id == Len(scopes) + 1
               h1 == NewScope(Zone, cur, "FUNCTION", TRUE, arrow)
           IN  /\ Install(IF arrow THEN h1
                          ELSE DeclareDefaultFunctionVariables(DeclareThis(h1, id), id))
               /\ cur' = id
        /\ nops' = nops + 1
        /\ last' = NoOp
        /\ UNCHANGED <<tracked, snapshot, ok, pc, todo, done>>

DoScope(max, scope_type) ==
    /\ Parsing(max)
    /\ Install(NewScope(Zone, cur, scope_type, FALSE, FALSE))
    /\ cur' = Len(scopes) + 1
    /\ nops' = nops + 1
    /\ last' = NoOp
    /\ UNCHANGED <<tracked, snapshot, ok, pc, todo, done>>

\* A block that hosts var declarations: the parser makes it a declaration
\* scope of type BLOCK.
DoVarblockScope(max) ==
    /\ Parsing(max)
    /\ Install(NewScope(Zone, cur, "BLOCK", TRUE, FALSE))
    /\ cur' = Len(scopes) + 1
    /\ nops' = nops + 1
    /\ last' = NoOp
    /\ UNCHANGED <<tracked, snapshot, ok, pc, todo, done>>

\* The compilation of the source of a direct eval called at the top of a
\* script: the parser starts in a new eval scope below the script scope.
DoEvalScope(max) ==
    /\ Parsing(max)
    /\ nops = 0
    /\ Install(NewScope(Zone, cur, "EVAL", TRUE, FALSE))
    /\ cur' = Len(scopes) + 1
    /\ nops' = nops + 1
    /\ last' = NoOp
    /\ UNCHANGED <<tracked, snapshot, ok, pc, todo, done>>

\* catch (name) { ... }: the catch scope and its binding.
DoCatchScope(max, names) ==
    \E name \in names :
        /\ Parsing(max)
        /\ LET id == Len(scopes) + 1
               h1 == NewScope(Zone, cur, "CATCH", FALSE, FALSE)
           IN  /\ Install(DeclareLocal(h1, id, name, "VAR", "NORMAL", FALSE).h)
               /\ cur' = id
        /\ nops' = nops + 1
        /\ last' = NoOp
        /\ UNCHANGED <<tracked, snapshot, ok, pc, todo, done>>

\* A declaration of name in the current scope.  The declaration's proxy is
\* bound by DeclareVariable and is not put on an unresolved list.
DoDeclareVariable(max, names, modes) ==
    \E name \in names, mode \in modes :
        /\ Parsing(max)
        /\ mode = "VAR" \/ scopes[cur].is_declaration_scope
                        \/ scopes[cur].scope_type = "BLOCK"
        /\ LET proxy == Len(proxies) + 1
               h1 == [Zone EXCEPT !.p = Append(@, NewProxy(name, FALSE))]
               decl == [proxy |-> proxy, scope |-> cur, is_function |-> FALSE,
                        function_kind |-> "kNormalFunction"]
               r == DeclareVariable(h1, cur, decl, mode, FALSE)
           IN  /\ Install(r.h)
               /\ ok' = r.ok
        /\ nops' = nops + 1
        /\ last' = NoOp
        /\ UNCHANGED <<tracked, snapshot, cur, pc, todo, done>>

\* A formal parameter.  The empty name is the TEMPORARY parameter the parser
\* declares for a destructuring or defaulted parameter; the parser reads it
\* back through a proxy it binds at once (the parameter's initialization).
DoDeclareParameter(max, names) ==
    \E name \in names :
        /\ Parsing(max)
        /\ scopes[cur].scope_type = "FUNCTION" /\ AtStart(cur)
        /\ LET mode == IF name = EmptyName THEN "TEMPORARY" ELSE "VAR"
               h1 == DeclareParameter(Zone, cur, name, mode)
               var == h1.s[cur].params[Len(h1.s[cur].params)]
               proxy == Len(h1.p) + 1
               h2 == [h1 EXCEPT !.p = Append(@, NewProxy(name, FALSE))]
           IN  Install(IF mode = "TEMPORARY" THEN BindTo(h2, proxy, var) ELSE h1)
        /\ nops' = nops + 1
        /\ last' = NoOp
        /\ UNCHANGED <<tracked, snapshot, cur, ok, pc, todo, done>>

\* DeclarationScope::SetHasNonSimpleParameters.
DoSetHasNonSimpleParameters(max) ==
    /\ Parsing(max)
    /\ scopes[cur].scope_type = "FUNCTION" /\ AtStart(cur)
    /\ scopes[cur].has_simple_parameters
    /\ Install([Zone EXCEPT !.s[cur].has_simple_parameters = FALSE])
    /\ nops' = nops + 1
    /\ last' = NoOp
    /\ UNCHANGED <<tracked, snapshot, cur, ok, pc, todo, done>>

\* The name of a named function expression.
DoDeclareFunctionVar(max, names) ==
    \E name \in names :
        /\ Parsing(max)
        /\ scopes[cur].scope_type = "FUNCTION" /\ ~scopes[cur].is_arrow
        /\ AtStart(cur) /\ scopes[cur].function_ = Null
        /\ scopes[cur].params = <<>>
        /\ Install(DeclareFunctionVar(Zone, cur, name))
        /\ nops' = nops + 1
        /\ last' = NoOp
        /\ UNCHANGED <<tracked, snapshot, cur, ok, pc, todo, done>>

\* A reference to a name in the current scope.
DoReference(max, names, assigned) ==
    \E name \in names, is_assigned \in assigned :
        /\ Parsing(max)
        /\ Install(NewUnresolved(Zone, cur, name, is_assigned))
        /\ tracked' = [tracked EXCEPT !.added = @ \cup {Len(proxies) + 1}]
        /\ nops' = nops + 1
        /\ last' = NoOp
        /\ UNCHANGED <<snapshot, cur, ok, pc, todo, done>>

DoEvalCall(max) ==
    /\ Parsing(max)
    /\ ~scopes[cur].scope_calls_eval
    /\ Install(RecordEvalCall(Zone, cur))
    /\ nops' = nops + 1
    /\ last' = NoOp
    /\ UNCHANGED <<tracked, snapshot, cur, ok, pc, todo, done>>

\* A "use strict" directive at the start of a function.
DoUseStrict(max) ==
    /\ Parsing(max)
    /\ scopes[cur].scope_type = "FUNCTION" /\ AtStart(cur) /\ ~scopes[cur].strict
    /\ scopes[cur].params = <<>> /\ scopes[cur].function_ = Null
    /\ Install([Zone EXCEPT !.s[cur].strict = TRUE])
    /\ nops' = nops + 1
    /\ last' = NoOp
    /\ UNCHANGED <<tracked, snapshot, cur, ok, pc, todo, done>>

\* A "use strict" directive at the start of the script.
DoUseStrictScript(max) ==
    /\ Parsing(max)
    /\ cur = 1 /\ nops = 0
    /\ Install([Zone EXCEPT !.s[cur].strict = TRUE])
    /\ nops' = nops + 1
    /\ last' = NoOp
    /\ UNCHANGED <<tracked, snapshot, cur, ok, pc, todo, done>>

\* Scope::ForceContextAllocation, as the parser calls it for a generator.
DoForceContextAllocation(max) ==
    /\ Parsing(max)
    /\ scopes[cur].scope_type = "FUNCTION" /\ AtStart(cur)
    /\ scopes[cur].params = <<>> /\ scopes[cur].function_ = Null
    /\ ~scopes[cur].force_context_allocation
    /\ Install([Zone EXCEPT !.s[cur].force_context_allocation = TRUE])
    /\ nops' = nops + 1
    /\ last' = NoOp
    /\ UNCHANGED <<tracked, snapshot, cur, ok, pc, todo, done>>

\* A declaration statement in the current scope: a variable declaration of
\* the given mode, or a function declaration, which is LET in a block and
\* VAR at the top of a declaration scope.  The parser enters a sloppy block
\* function that is neither async nor a restricted generator in the
\* sloppy_block_function_map of the declaration scope.  DeclareVariable reads
\* allow_harmony_restrictive_generators for a generator only, so the flag is
\* drawn for generators and is false otherwise.  last keeps the call
\* of DeclareVariable: its arguments, what it returned, the scope that
\* received the declaration and the zone before the call.
DoDeclaration(max, names, modes, function_kinds) ==
    \E name \in names, mode \in modes, is_function \in BOOLEAN,
       function_kind \in function_kinds,
       allow_harmony_restrictive_generators \in BOOLEAN :
        /\ Parsing(max)
        /\ is_function \/ function_kind = "kNormalFunction"
        /\ allow_harmony_restrictive_generators
               => function_kind = "kGeneratorFunction"
        /\ is_function => mode = (IF scopes[cur].is_declaration_scope
                                  THEN "VAR" ELSE "LET")
        /\ mode = "VAR" \/ scopes[cur].is_declaration_scope
                        \/ scopes[cur].scope_type = "BLOCK"
        /\ LET proxy == Len(proxies) + 1
               h1 == [Zone EXCEPT !.p = Append(@, NewProxy(name, FALSE))]
               decl == [proxy |-> proxy, scope |-> cur, is_function |-> is_function,
                        function_kind |-> function_kind]
               r == DeclareVariable(h1, cur, decl, mode,
                                    allow_harmony_restrictive_generators)
               sloppy_block_function ==
                   /\ r.ok /\ is_function
                   /\ is_sloppy(Zone, cur) /\ ~scopes[cur].is_declaration_scope
                   /\ function_kind # "kAsyncFunction"
                   /\ ~(allow_harmony_restrictive_generators
                        /\ function_kind = "kGeneratorFunction")
           IN  /\ Install(IF sloppy_block_function
                          THEN SloppyBlockFunctionMapDeclare(
                                   r.h, GetDeclarationScope(r.h, cur), name)
                          ELSE r.h)
               /\ ok' = (ok /\ r.ok)
               /\ last' = [op |-> "DeclareVariable", scope |-> cur, proxy |-> proxy,
                           ret |-> r.var, again |-> FALSE, pre |-> h1,
                           decl |-> decl, mode |-> mode,
                           allow_harmony_restrictive_generators |->
                               allow_harmony_restrictive_generators,
                           redefinition |-> r.redefinition,
                           target |-> IF mode = "VAR"
                                      THEN GetDeclarationScope(h1, cur) ELSE cur]
        /\ nops' = nops + 1
        /\ UNCHANGED <<tracked, snapshot, cur, pc, todo, done>>

\* CheckConflictingVarDeclarations called on the current scope, as the parser
\* does at the end of a function body, a script or a block.
DoCheckConflictingVarDeclarations(max) ==
    /\ Parsing(max)
    /\ scopes[cur].is_declaration_scope \/ scopes[cur].scope_type = "BLOCK"
    /\ last.op # "CheckConflictingVarDeclarations"
    /\ last' = [op |-> "CheckConflictingVarDeclarations", scope |-> cur,
                proxy |-> Null, ret |-> CheckConflictingVarDeclarations(Zone, cur),
                again |-> FALSE, pre |-> Zone]
    /\ nops' = nops + 1
    /\ UNCHANGED <<tracked, snapshot, scopes, variables, proxies, cur, ok, pc, todo, done>>

\* The end of the current scope; a block scope is finalized.  With record,
\* the call of FinalizeBlockScope is written to last.
DoLeaveScope(record) ==
    /\ pc = "parse" /\ ok /\ cur # 1
    /\ scopes[cur].scope_type # "EVAL"
    /\ LET r == IF scopes[cur].scope_type = "BLOCK"
                THEN FinalizeBlockScope(Zone, cur) ELSE [h |-> Zone, ret |-> cur]
       IN  /\ Install(r.h)
           /\ last' = IF record /\ scopes[cur].scope_type = "BLOCK"
                      THEN [op |-> "FinalizeBlockScope", scope |-> cur, proxy |-> Null,
                            ret |-> r.ret, again |-> FALSE, pre |-> Zone]
                      ELSE NoOp
           /\ tracked' = IF r.ret = Null
                         THEN [tracked EXCEPT !.finalized = @ \cup {cur}]
                         ELSE tracked
    /\ cur' = scopes[cur].outer_scope
    /\ UNCHANGED <<snapshot, ok, nops, pc, todo, done>>

\* RemoveUnresolved called on the current scope with any proxy of the zone.
DoRemoveUnresolved(max) ==
    \E proxy \in 1..Len(proxies) :
        /\ Parsing(max)
        /\ LET r == RemoveUnresolved(Zone, cur, proxy)
           IN  /\ Install(r.h)
               /\ last' = [op |-> "RemoveUnresolved", scope |-> cur, proxy |-> proxy,
                           ret |-> r.ret,
                           again |-> /\ last.op = "RemoveUnresolved"
                                     /\ last.scope = cur /\ last.proxy = proxy
                                     /\ last.ret = TRUE,
                           pre |-> Zone]
               /\ tracked' = IF r.ret THEN [tracked EXCEPT !.added = @ \ {proxy}]
                             ELSE tracked
        /\ nops' = nops + 1
        /\ UNCHANGED <<snapshot, cur, ok, pc, todo, done>>

\* AddUnresolved of a proxy that is on no list (one RemoveUnresolved took
\* off), as the parser does when it reclassifies an expression.
DoAddUnresolved(max) ==
    \E proxy \in 1..Len(proxies) :
        /\ Parsing(max)
        /\ ~is_resolved(Zone, proxy)
        /\ \A s \in 1..Len(scopes) : proxy \notin SeqToSet(UnresolvedList(Zone, s))
        /\ Install(AddUnresolved(Zone, cur, proxy))
        /\ tracked' = [tracked EXCEPT !.added = @ \cup {proxy}]
        /\ nops' = nops + 1
        /\ last' = NoOp
        /\ UNCHANGED <<snapshot, cur, ok, pc, todo, done>>

\* A temporary the parser makes for the expression it is in.
DoNewTemporary(max) ==
    /\ Parsing(max)
    /\ Install(NewTemporary(Zone, cur, EmptyName).h)
    /\ nops' = nops + 1
    /\ last' = NoOp
    /\ UNCHANGED <<tracked, snapshot, cur, ok, pc, todo, done>>

\* The parser starts an expression that may turn out to be the parameter
\* list of an arrow function: it takes a snapshot of the current scope.
DoSnapshot(max) ==
    /\ Parsing(max)
    /\ ~snapshot.taken
    /\ snapshot' = [taken |-> TRUE, obj |-> Snapshot(Zone, cur), zone |-> Zone]
    /\ last' = NoOp
    /\ UNCHANGED <<tracked, scopes, variables, proxies, cur, ok, nops, pc, todo, done>>

\* The parser meets the arrow: back in the scope of the snapshot, it makes
\* the arrow function's scope and calls Reparent with it, and goes on in the
\* function's scope.  last keeps the call: the snapshot with the zone it was
\* taken in, the new scope and the zone before the call.
DoArrowFunction(max) ==
    /\ Parsing(max)
    /\ snapshot.taken /\ cur = snapshot.obj.outer_scope_
    /\ LET new_parent == Len(scopes) + 1
           h1 == NewScope(Zone, cur, "FUNCTION", TRUE, TRUE)
       IN  /\ Install(Reparent(h1, snapshot.obj, new_parent))
           /\ cur' = new_parent
           /\ last' = [op |-> "Reparent", scope |-> new_parent, proxy |-> Null,
                       ret |-> Null, again |-> FALSE, pre |-> h1,
                       snap |-> snapshot]
    /\ snapshot' = NoSnapshot
    /\ nops' = nops + 1
    /\ UNCHANGED <<tracked, ok, pc, todo, done>>

\* s is outer or one of the scopes around it.
RECURSIVE IsAround(_, _, _)
IsAround(h, s, outer) ==
    outer # Null /\ (s = outer \/ IsAround(h, s, h.s[outer].outer_scope))

\* The parser moves a scope it has finished under another scope that is
\* still open (the current scope or one around it), as it does with the
\* function scopes of a parameter initializer.  The new outer scope is not
\* inside the scope that moves, and the inner list of a scope the parser
\* holds a snapshot of is left alone.
DoReplaceOuterScope(max) ==
    \E s \in 2..Len(scopes), outer \in 1..Len(scopes) :
        /\ Parsing(max)
        /\ IsAround(Zone, outer, cur)
        /\ ~IsAround(Zone, s, cur)
        /\ IsAround(Zone, 1, s)
        /\ scopes[s].outer_scope # outer
        /\ snapshot.taken => /\ scopes[s].outer_scope # snapshot.obj.outer_scope_
                              /\ outer # snapshot.obj.outer_scope_
        /\ Install(ReplaceOuterScope(Zone, s, outer))
        /\ nops' = nops + 1
        /\ last' = [op |-> "ReplaceOuterScope", scope |-> s, proxy |-> Null,
                    ret |-> Null, again |-> FALSE, pre |-> Zone]
        /\ UNCHANGED <<tracked, snapshot, cur, ok, pc, todo, done>>

\* The parser starts a module: ModuleScope::ModuleScope makes the module
\* scope below the script scope, strict and with a receiver.
DoModuleScope(max) ==
    /\ Parsing(max)
    /\ cur = 1 /\ nops = 0
    /\ LET id == Len(scopes) + 1
           h1 == NewScope(Zone, cur, "MODULE", TRUE, FALSE)
       IN  /\ Install(DeclareThis([h1 EXCEPT !.s[id].strict = TRUE], id))
           /\ cur' = id
    /\ nops' = nops + 1
    /\ last' = NoOp
    /\ UNCHANGED <<tracked, snapshot, ok, pc, todo, done>>

\* An import or an export declaration at the top of the module: the parser
\* declares the local name (an import binding is CONST) and enters it in the
\* module descriptor's regular imports or regular exports.
DoModuleDeclaration(max, names, modes) ==
    \E name \in names, mode \in modes, is_import \in BOOLEAN :
        /\ Parsing(max)
        /\ scopes[cur].scope_type = "MODULE"
        /\ scopes[cur].variables[name] = Null
        /\ is_import => mode = "CONST"
        /\ LET proxy == Len(proxies) + 1
               h1 == [Zone EXCEPT !.p = Append(@, NewProxy(name, FALSE))]
               decl == [proxy |-> proxy, scope |-> cur, is_function |-> FALSE,
                        function_kind |-> "kNormalFunction"]
               r == DeclareVariable(h1, cur, decl, mode, FALSE)
           IN  /\ Install(IF is_import
                          THEN [r.h EXCEPT !.s[cur].regular_imports = @ \cup {name}]
                          ELSE [r.h EXCEPT !.s[cur].regular_exports = @ \cup {name}])
               /\ ok' = r.ok
        /\ nops' = nops + 1
        /\ last' = NoOp
        /\ UNCHANGED <<tracked, snapshot, cur, pc, todo, done>>

\* The code runs inside a debug-evaluate context: DeserializeScopeChain
\* makes a with scope for it and marks it a debug-evaluate scope.  The
\* chain is rebuilt before anything is parsed: the scopes so far are the
\* chain from the script scope to the current scope, with nothing in them.
DoDebugEvaluateScope(max) ==
    /\ Parsing(max)
    /\ cur = Len(scopes)
    /\ \A s \in 2..Len(scopes) : scopes[s].outer_scope = s - 1
    /\ proxies = <<>>
    /\ \A s \in 1..Len(scopes) : ~scopes[s].scope_calls_eval
    /\ LET id == Len(scopes) + 1
           h1 == NewScope(Zone, cur, "WITH", FALSE, FALSE)
       IN  Install([h1 EXCEPT !.s[id].is_debug_evaluate_scope = TRUE])
    /\ cur' = Len(scopes) + 1
    /\ nops' = nops + 1
    /\ last' = NoOp
    /\ UNCHANGED <<tracked, snapshot, ok, pc, todo, done>>

\* ----------------------------------------------------------------- Spec
\* The parser builds a program of at most MaxOps operations, then
\* DeclarationScope::Analyze runs AllocateVariables on the script scope.
ParseFunctionScope == DoFunctionScope(MaxOps, BOOLEAN)
ParseBlockScope == DoScope(MaxOps, "BLOCK")
ParseWithScope == DoScope(MaxOps, "WITH")
ParseDeclareVariable == DoDeclareVariable(MaxOps, Names, {"VAR", "LET"})
ParseDeclareFunctionVar == DoDeclareFunctionVar(MaxOps, {"x"})
ParseReference == DoReference(MaxOps, Names \cup {ThisName}, {FALSE})
ParseEvalCall == DoEvalCall(MaxOps)
ParseLeaveScope == DoLeaveScope(FALSE)

Analyze ==
    /\ pc = "parse" /\ ok /\ cur = 1
    /\ Install(AllocateVariables(Zone, 1))
    /\ pc' = "done"
    /\ UNCHANGED <<tracked, snapshot, cur, ok, nops, todo, done, last>>

Next ==
    \/ ParseFunctionScope
    \/ ParseBlockScope
    \/ ParseWithScope
    \/ ParseDeclareVariable
    \/ ParseDeclareFunctionVar
    \/ ParseReference
    \/ ParseEvalCall
    \/ ParseLeaveScope
    \/ Analyze

Spec == Init /\ [][Next]_vars

\* ------------------------------------------------------------ SpecParams
\* Functions with parameter lists: named and TEMPORARY parameters, strict
\* functions, forced context allocation, references to `arguments`.
ParamFunctionScope == DoFunctionScope(MaxParamOps, {FALSE})
ParamDeclareParameter == DoDeclareParameter(MaxParamOps, {"x", EmptyName})
ParamSetHasNonSimpleParameters == DoSetHasNonSimpleParameters(MaxParamOps)
ParamUseStrict == DoUseStrict(MaxParamOps)
ParamForceContextAllocation == DoForceContextAllocation(MaxParamOps)
ParamReference == DoReference(MaxParamOps, {"x", ArgumentsName}, {FALSE})
ParamEvalCall == DoEvalCall(MaxParamOps)
ParamDeclareVariable == DoDeclareVariable(MaxParamOps, {"y"}, {"VAR"})

NextParams ==
    \/ ParamFunctionScope
    \/ ParamDeclareParameter
    \/ ParamSetHasNonSimpleParameters
    \/ ParamUseStrict
    \/ ParamForceContextAllocation
    \/ ParamReference
    \/ ParamEvalCall
    \/ ParamDeclareVariable
    \/ ParseLeaveScope
    \/ Analyze

SpecParams == Init /\ [][NextParams]_vars

\* -------------------------------------------------------------- SpecTree
\* The parser's rewriting of the tree while it parses: scopes are opened and
\* left (a block scope is finalized), references are added to and removed
\* from unresolved lists.
TreeFunctionScope == DoFunctionScope(MaxTreeOps, {TRUE})
TreeBlockScope == DoScope(MaxTreeOps, "BLOCK")
TreeDeclareVariable == DoDeclareVariable(MaxTreeOps, {"x"}, {"LET"})
TreeReference == DoReference(MaxTreeOps, {"x"}, {FALSE})
TreeEvalCall == DoEvalCall(MaxTreeOps)
TreeRemoveUnresolved == DoRemoveUnresolved(MaxTreeOps)
TreeAddUnresolved == DoAddUnresolved(MaxTreeOps)
TreeLeaveScope == DoLeaveScope(TRUE)

NextTree ==
    \/ TreeFunctionScope
    \/ TreeBlockScope
    \/ TreeDeclareVariable
    \/ TreeReference
    \/ TreeEvalCall
    \/ TreeRemoveUnresolved
    \/ TreeAddUnresolved
    \/ TreeLeaveScope

SpecTree == Init /\ [][NextTree]_vars

\* -------------------------------------------------------------- SpecDecl
\* Declarations and their conflicts: variable and function declarations in
\* nested blocks and functions, strict and sloppy, and the parser's check
\* for conflicting var declarations.
DeclFunctionScope == DoFunctionScope(MaxDeclOps, {TRUE})
DeclBlockScope == DoScope(MaxDeclOps, "BLOCK")
DeclEvalScope == DoEvalScope(MaxDeclOps)
DeclUseStrict == DoUseStrict(MaxDeclOps)
DeclUseStrictScript == DoUseStrictScript(MaxDeclOps)
DeclDeclaration ==
    DoDeclaration(MaxDeclOps, {"x"}, {"VAR", "LET"},
                  {"kNormalFunction", "kGeneratorFunction", "kAsyncFunction"})
DeclCheckConflictingVarDeclarations == DoCheckConflictingVarDeclarations(MaxDeclOps)

NextDecl ==
    \/ DeclFunctionScope
    \/ DeclBlockScope
    \/ DeclEvalScope
    \/ DeclUseStrict
    \/ DeclUseStrictScript
    \/ DeclDeclaration
    \/ DeclCheckConflictingVarDeclarations
    \/ ParseLeaveScope

SpecDecl == Init /\ [][NextDecl]_vars

\* ------------------------------------------------------------ SpecBlocks
\* Blocks and what becomes of them at their end: plain blocks and blocks
\* that host var declarations, with declarations, references, inner scopes
\* and eval calls, in a sloppy or a strict script.
BlockUseStrictScript == DoUseStrictScript(MaxBlockOps)
BlockBlockScope == DoScope(MaxBlockOps, "BLOCK")
BlockVarblockScope == DoVarblockScope(MaxBlockOps)
BlockDeclareVariable == DoDeclareVariable(MaxBlockOps, {"x"}, {"VAR", "LET"})
BlockReference == DoReference(MaxBlockOps, {"x"}, {FALSE})
BlockEvalCall == DoEvalCall(MaxBlockOps)

NextBlocks ==
    \/ BlockUseStrictScript
    \/ BlockBlockScope
    \/ BlockVarblockScope
    \/ BlockDeclareVariable
    \/ BlockReference
    \/ BlockEvalCall
    \/ TreeLeaveScope

SpecBlocks == Init /\ [][NextBlocks]_vars

\* ---------------------------------------------------------- SpecSnapshot
\* Expressions that may be arrow parameter lists: the parser takes a
\* snapshot, parses on (blocks of do-expressions with their declarations,
\* function expressions, references, temporaries) and, at an arrow, reparents
\* what it has added since.  While it holds the snapshot the parser is inside
\* an expression of the snapshot's scope: it does not leave that scope, and
\* declarations are made in the blocks below it.
InExpression == snapshot.taken /\ cur = snapshot.obj.outer_scope_

SnapFunctionScope == DoFunctionScope(MaxSnapOps, {FALSE})
SnapBlockScope == DoScope(MaxSnapOps, "BLOCK")
SnapDeclareVariable ==
    ~InExpression /\ DoDeclareVariable(MaxSnapOps, {"x"}, {"VAR", "LET"})
SnapNewTemporary == DoNewTemporary(MaxSnapOps)
SnapReference == DoReference(MaxSnapOps, {"x"}, {FALSE})
SnapLeaveScope == ~InExpression /\ DoLeaveScope(FALSE)
SnapSnapshot == DoSnapshot(MaxSnapOps)
SnapArrowFunction == DoArrowFunction(MaxSnapOps)

NextSnapshot ==
    \/ SnapFunctionScope
    \/ SnapBlockScope
    \/ SnapDeclareVariable
    \/ SnapNewTemporary
    \/ SnapReference
    \/ SnapLeaveScope
    \/ SnapSnapshot
    \/ SnapArrowFunction

SpecSnapshot == Init /\ [][NextSnapshot]_vars

\* ------------------------------------------------------------- SpecShape
\* The operations that build and rewrite the scope tree, with eval calls and
\* references, followed by PropagateScopeInfo on the script scope.
ShapeFunctionScope == DoFunctionScope(MaxShapeOps, {TRUE})
ShapeBlockScope == DoScope(MaxShapeOps, "BLOCK")
ShapeReference == DoReference(MaxShapeOps, {"x"}, {FALSE})
ShapeEvalCall == DoEvalCall(MaxShapeOps)
ShapeLeaveScope == ~InExpression /\ DoLeaveScope(FALSE)
ShapeSnapshot == DoSnapshot(MaxShapeOps)
ShapeArrowFunction == DoArrowFunction(MaxShapeOps)
ShapeReplaceOuterScope == DoReplaceOuterScope(MaxShapeOps)

ShapePropagateScopeInfo ==
    /\ pc = "parse" /\ ok /\ cur = 1 /\ ~snapshot.taken
    /\ Install(PropagateScopeInfo(Zone, 1))
    /\ pc' = "propagated"
    /\ UNCHANGED <<tracked, snapshot, cur, ok, nops, todo, done, last>>

NextShape ==
    \/ ShapeFunctionScope
    \/ ShapeBlockScope
    \/ ShapeReference
    \/ ShapeEvalCall
    \/ ShapeLeaveScope
    \/ ShapeSnapshot
    \/ ShapeArrowFunction
    \/ ShapeReplaceOuterScope
    \/ ShapePropagateScopeInfo

SpecShape == Init /\ [][NextShape]_vars

\* ------------------------------------------------------------ SpecModule
\* A module: imports, exports and other declarations at its top, functions
\* and blocks inside with references and eval calls, then Analyze.
ModModuleScope == DoModuleScope(MaxModuleOps)
ModModuleDeclaration ==
    DoModuleDeclaration(MaxModuleOps, {"x", "y"}, {"VAR", "LET", "CONST"})
ModFunctionScope == DoFunctionScope(MaxModuleOps, {FALSE})
ModDeclareVariable == DoDeclareVariable(MaxModuleOps, {"x"}, {"LET"})
ModReference == DoReference(MaxModuleOps, {"x"}, {FALSE})
ModEvalCall == DoEvalCall(MaxModuleOps)

NextModule ==
    \/ ModModuleScope
    \/ ModModuleDeclaration
    \/ ModFunctionScope
    \/ ModDeclareVariable
    \/ ModReference
    \/ ModEvalCall
    \/ ParseLeaveScope
    \/ Analyze

SpecModule == Init /\ [][NextModule]_vars

\* ------------------------------------------------------- SpecFunctionVar
\* Named function expressions: sloppy or strict, with a parameter or a var
\* of the function's own name, references and eval calls, then Analyze.
FvarFunctionScope == DoFunctionScope(MaxFvarOps, {FALSE})
FvarUseStrict == DoUseStrict(MaxFvarOps)
FvarDeclareFunctionVar == DoDeclareFunctionVar(MaxFvarOps, {"x"})
FvarDeclareParameter == DoDeclareParameter(MaxFvarOps, {"x"})
FvarDeclareVariable == DoDeclareVariable(MaxFvarOps, {"x"}, {"VAR"})
FvarReference == DoReference(MaxFvarOps, {"x"}, {FALSE})
FvarEvalCall == DoEvalCall(MaxFvarOps)

NextFunctionVar ==
    \/ FvarFunctionScope
    \/ FvarUseStrict
    \/ FvarDeclareFunctionVar
    \/ FvarDeclareParameter
    \/ FvarDeclareVariable
    \/ FvarReference
    \/ FvarEvalCall
    \/ ParseLeaveScope
    \/ Analyze

SpecFunctionVar == Init /\ [][NextFunctionVar]_vars

\* -------------------------------------------------------------- SpecThis
\* References to `this` from functions, arrow functions, with scopes and
\* debug-evaluate scopes, with eval calls, then Analyze.
ThisFunctionScope == DoFunctionScope(MaxThisOps, BOOLEAN)
ThisWithScope == DoScope(MaxThisOps, "WITH")
ThisDebugEvaluateScope == DoDebugEvaluateScope(MaxThisOps)
ThisReference == DoReference(MaxThisOps, {ThisName}, {FALSE})
ThisEvalCall == DoEvalCall(MaxThisOps)

NextThis ==
    \/ ThisFunctionScope
    \/ ThisWithScope
    \/ ThisDebugEvaluateScope
    \/ ThisReference
    \/ ThisEvalCall
    \/ ParseLeaveScope
    \/ Analyze

SpecThis == Init /\ [][NextThis]_vars

\* ------------------------------------------------------------- SpecFetch
\* CollectNonLocals (989) and AnalyzePartially (1005) call FetchFreeVariables
\* on a declaration scope with that scope as max_outer_scope and no incoming
\* stack: on a function whose body has been parsed, with or without a
\* ParseInfo, or with a ParseInfo on a declaration scope of the analyzed tree.
DoFetchFreeVariables ==
    \E s \in 1..Len(scopes), info \in BOOLEAN :
        /\ ok /\ ~snapshot.taken
        /\ \/ pc = "parse" /\ s = cur /\ is_function_scope(Zone, s)
           \/ /\ pc = "done" /\ info /\ s \in Descendants(Zone, 1)
              /\ is_declaration_scope(Zone, s)
        /\ LET r == FetchFreeVariables(Zone, s, s, info, Null)
           IN  /\ Install(r.h)
               /\ last' = [op |-> "FetchFreeVariables", scope |-> s,
                           proxy |-> Null, ret |-> r.stack, again |-> FALSE,
                           pre |-> Zone, info |-> info, calls |-> r.calls]
        /\ pc' = "fetched"
        /\ UNCHANGED <<tracked, snapshot, cur, ok, nops, todo, done>>

FetchFunctionScope == DoFunctionScope(MaxFetchOps, {FALSE})
FetchWithScope == DoScope(MaxFetchOps, "WITH")
FetchDeclareVariable == DoDeclareVariable(MaxFetchOps, {"x"}, {"VAR"})
FetchReference == DoReference(MaxFetchOps, {"x", "y"}, {FALSE})
FetchEvalCall == DoEvalCall(MaxFetchOps)

NextFetch ==
    \/ FetchFunctionScope
    \/ FetchWithScope
    \/ FetchDeclareVariable
    \/ FetchReference
    \/ FetchEvalCall
    \/ ParseLeaveScope
    \/ Analyze
    \/ DoFetchFreeVariables

SpecFetch == Init /\ [][NextFetch]_vars

\* ------------------------------------------------------------ SpecAssign
\* Reads and assignments inside with scopes, resolved by the first two steps
\* of AllocateVariables (lines 895-897).
DoResolveVariablesRecursively ==
    /\ pc = "parse" /\ ok /\ cur = 1
    /\ Install(ResolveVariablesRecursively(PropagateScopeInfo(Zone, 1), 1))
    /\ pc' = "resolved"
    /\ UNCHANGED <<tracked, snapshot, cur, ok, nops, todo, done, last>>

AssignFunctionScope == DoFunctionScope(MaxAssignOps, {FALSE})
AssignWithScope == DoScope(MaxAssignOps, "WITH")
AssignDeclareVariable == DoDeclareVariable(MaxAssignOps, {"x"}, {"VAR", "LET"})
AssignReference == DoReference(MaxAssignOps, {"x"}, BOOLEAN)

NextAssign ==
    \/ AssignFunctionScope
    \/ AssignWithScope
    \/ AssignDeclareVariable
    \/ AssignReference
    \/ ParseLeaveScope
    \/ DoResolveVariablesRecursively

SpecAssign == Init /\ [][NextAssign]_vars

\* ----------------------------------------------------------- SpecContext
\* Scopes of the kinds that must or need not have a context: functions,
\* blocks that host var declarations, with scopes and a module, sloppy or
\* strict, with declarations, references and eval calls, then Analyze.
CtxUseStrictScript == DoUseStrictScript(MaxCtxOps)
CtxModuleScope == DoModuleScope(MaxCtxOps)
CtxFunctionScope == DoFunctionScope(MaxCtxOps, {FALSE})
CtxVarblockScope == DoVarblockScope(MaxCtxOps)
CtxWithScope == DoScope(MaxCtxOps, "WITH")
CtxDeclareVariable == DoDeclareVariable(MaxCtxOps, {"x"}, {"VAR", "LET"})
CtxReference == DoReference(MaxCtxOps, {"x"}, {FALSE})
CtxEvalCall == DoEvalCall(MaxCtxOps)

NextContext ==
    \/ CtxUseStrictScript
    \/ CtxModuleScope
    \/ CtxFunctionScope
    \/ CtxVarblockScope
    \/ CtxWithScope
    \/ CtxDeclareVariable
    \/ CtxReference
    \/ CtxEvalCall
    \/ ParseLeaveScope
    \/ Analyze

SpecContext == Init /\ [][NextContext]_vars

\* ------------------------------------------------------------- SpecSteps
\* AllocateVariables step by step: PropagateScopeInfo, then
\* ResolveVariablesRecursively, then AllocateVariablesRecursively scope by
\* scope in the order of its recursion, then AllocateScopeInfosRecursively.
\* done records each finished scope with the slot counts it finished with.
StepFunctionScope == DoFunctionScope(MaxStepOps, {FALSE})
StepBlockScope == DoScope(MaxStepOps, "BLOCK")
StepCatchScope == DoCatchScope(MaxStepOps, {"x"})
StepDeclareVariable == DoDeclareVariable(MaxStepOps, {"x"}, {"VAR", "LET"})
StepReference == DoReference(MaxStepOps, {"x"}, {FALSE})
StepEvalCall == DoEvalCall(MaxStepOps)

StepPropagateScopeInfo ==
    /\ pc = "parse" /\ ok /\ cur = 1
    /\ Install(PropagateScopeInfo(Zone, 1))
    /\ pc' = "propagated"
    /\ UNCHANGED <<tracked, snapshot, cur, ok, nops, todo, done, last>>

StepResolveVariablesRecursively ==
    /\ pc = "propagated"
    /\ Install(ResolveVariablesRecursively(Zone, 1))
    /\ pc' = "resolved"
    /\ todo' = AllocationOrder(Zone, 1)
    /\ UNCHANGED <<tracked, snapshot, cur, ok, nops, done, last>>

StepAllocateScope ==
    /\ pc = "resolved" /\ todo # <<>>
    /\ LET s == Head(todo)
           h == AllocateScope(Zone, s)
       IN  /\ Install(h)
           /\ done' = Append(done, [scope |-> s,
                                    num_heap_slots |-> h.s[s].num_heap_slots,
                                    num_stack_slots |-> h.s[s].num_stack_slots])
    /\ todo' = Tail(todo)
    /\ UNCHANGED <<tracked, snapshot, cur, ok, nops, pc, last>>

StepAllocateScopeInfosRecursively ==
    /\ pc = "resolved" /\ todo = <<>>
    /\ pc' = "done"
    /\ UNCHANGED <<tracked, snapshot, scopes, variables, proxies, cur, ok, nops, todo, done, last>>

NextSteps ==
    \/ StepFunctionScope
    \/ StepBlockScope
    \/ StepCatchScope
    \/ StepDeclareVariable
    \/ StepReference
    \/ StepEvalCall
    \/ ParseLeaveScope
    \/ StepPropagateScopeInfo
    \/ StepResolveVariablesRecursively
    \/ StepAllocateScope
    \/ StepAllocateScopeInfosRecursively

SpecSteps == Init /\ [][NextSteps]_vars

\* ------------------------------------------- vocabulary of the properties
Analyzed == pc = "done"

AllVariables == 1..Len(variables)
AllScopes == 1..Len(scopes)
AllProxies == 1..Len(proxies)

\* The scopes of the tree: the script scope and what its inner lists reach.
TreeScopes == Descendants(Zone, 1)

\* The scopes from s outwards, s first and the script scope last.
RECURSIVE ScopeChain(_)
ScopeChain(s) ==
    IF s = Null THEN <<>> ELSE <<s>> \o ScopeChain(scopes[s].outer_scope)

\* s declares name itself: a variable of its map that no lookup made up, or
\* its function variable.
HasBinding(s, name) ==
    \/ /\ scopes[s].variables[name] # Null
       /\ ~IsDynamicVariableMode(variables[scopes[s].variables[name]].mode)
    \/ /\ scopes[s].function_ # Null
       /\ variables[scopes[s].function_].name = name

\* The references of the program: <<r, p>> for proxy p on the unresolved
\* list of tree scope r.
References ==
    UNION {{<<r, p>> : p \in SeqToSet(UnresolvedList(Zone, r))} : r \in TreeScopes}

IsAllocated(v) == variables[v].location # "UNALLOCATED"

\* ---------------------------------------------------------------------- C1
\* C1 as stated: after AllocateVariables, a Variable of the tree has a
\* location other than UNALLOCATED exactly when it is used and is not a
\* global-object property.  The variables that NonLocal makes are pinned to
\* LOOKUP at creation, DYNAMIC_GLOBAL ones included, so this fails.
C1_AllocatedIffUsedNonGlobal ==
    Analyzed =>
        \A v \in AllVariables :
            IsAllocated(v) <=> (variables[v].is_used /\ ~IsGlobalObjectProperty(Zone, v))

\* C1 amended: after AllocateVariables, a Variable whose mode is not dynamic
\* has a location other than UNALLOCATED exactly when it is used and is not
\* a global-object property; a dynamic Variable has location LOOKUP when
\* NonLocal made it (it has no scope) and is UNALLOCATED when
\* DeclareDynamicGlobal made it, used or not.
C1_DeclaredAllocatedIffUsedNonGlobal ==
    Analyzed =>
        \A v \in AllVariables :
            IF IsDynamicVariableMode(variables[v].mode)
            THEN variables[v].location =
                     (IF variables[v].scope = Null THEN "LOOKUP" ELSE "UNALLOCATED")
            ELSE IsAllocated(v) <=>
                     (variables[v].is_used /\ ~IsGlobalObjectProperty(Zone, v))

\* A program with an allocated local, a used global-object property left
\* unallocated and a DYNAMIC_GLOBAL at LOOKUP.
C1_Witness ==
    /\ Analyzed
    /\ \E v \in AllVariables :
           /\ ~IsDynamicVariableMode(variables[v].mode)
           /\ variables[v].location \in {"LOCAL", "CONTEXT", "PARAMETER"}
    /\ \E v \in AllVariables :
           /\ variables[v].mode = "VAR" /\ variables[v].is_used
           /\ IsGlobalObjectProperty(Zone, v) /\ ~IsAllocated(v)
    /\ \E v \in AllVariables :
           variables[v].mode = "DYNAMIC_GLOBAL" /\ variables[v].location = "LOOKUP"

\* ---------------------------------------------------------------------- C2
\* The scope whose num_stack_slots counts the stack slots of the variables of
\* s: AllocateStackSlot hands a block scope's request to the declaration
\* scope outside it.
RECURSIVE StackOwner(_)
StackOwner(s) ==
    IF is_block_scope(Zone, s)
    THEN StackOwner(GetDeclarationScope(Zone, scopes[s].outer_scope))
    ELSE s

StackAllocatedAt(s) ==
    {v \in AllVariables : /\ variables[v].location = "LOCAL"
                          /\ variables[v].scope # Null
                          /\ StackOwner(variables[v].scope) = s}

ContextAllocatedAt(s) ==
    {v \in AllVariables : variables[v].location = "CONTEXT" /\ variables[v].scope = s}

IndicesOf(vs) == {variables[v].index : v \in vs}

\* C2: after allocation, for each scope s the LOCAL indices of the variables
\* stack-allocated at s are exactly 0 .. num_stack_slots - 1 and, when
\* num_heap_slots is not zero, the CONTEXT indices of the variables
\* context-allocated at s are exactly MIN_CONTEXT_SLOTS .. num_heap_slots - 1,
\* with no duplicates and no gaps.
C2_DenseSlotIndices ==
    Analyzed =>
        \A s \in TreeScopes :
            /\ IndicesOf(StackAllocatedAt(s)) = 0..(scopes[s].num_stack_slots - 1)
            /\ Cardinality(StackAllocatedAt(s)) = scopes[s].num_stack_slots
            /\ scopes[s].num_heap_slots # 0 =>
                   /\ IndicesOf(ContextAllocatedAt(s)) =
                          MIN_CONTEXT_SLOTS..(scopes[s].num_heap_slots - 1)
                   /\ Cardinality(ContextAllocatedAt(s)) =
                          scopes[s].num_heap_slots - MIN_CONTEXT_SLOTS

\* A scope with two or more context slots and a scope with a stack slot.
C2_Witness ==
    /\ Analyzed
    /\ \E s \in TreeScopes : scopes[s].num_heap_slots >= MIN_CONTEXT_SLOTS + 2
    /\ \E s \in TreeScopes : scopes[s].num_stack_slots >= 1

\* ---------------------------------------------------------------------- C3
\* The scopes from r outwards up to and including s.
RECURSIVE PathTo(_, _)
PathTo(r, s) ==
    IF r = Null THEN <<>>
    ELSE IF r = s THEN <<s>>
    ELSE <<r>> \o PathTo(scopes[r].outer_scope, s)

\* The reference p of scope r is free in the function scope s, s calls sloppy
\* eval, and any binding of the name is outside s.
FreeInSloppyEvalFunction(r, p, s) ==
    /\ is_function_scope(Zone, s)
    /\ calls_sloppy_eval(Zone, s)
    /\ s \in SeqToSet(ScopeChain(r))
    /\ \A t \in SeqToSet(PathTo(r, s)) : ~HasBinding(t, proxies[p].name)

BoundMode(p) == variables[proxies[p].var].mode

RECURSIVE ReceiverOutside(_)
ReceiverOutside(s) ==
    IF scopes[s].outer_scope = Null THEN Null
    ELSE IF scopes[scopes[s].outer_scope].receiver_ # Null
         THEN scopes[scopes[s].outer_scope].receiver_
         ELSE ReceiverOutside(scopes[s].outer_scope)

RECURSIVE ResolutionPath(_, _)
ResolutionPath(s, name) ==
    IF s = Null THEN <<>>
    ELSE IF HasBinding(s, name) THEN <<s>>
    ELSE <<s>> \o ResolutionPath(scopes[s].outer_scope, name)

ThroughWith(r, p) ==
    \E w \in SeqToSet(ResolutionPath(r, proxies[p].name)) : is_with_scope(Zone, w)

RECURSIVE ReceiverFrom(_)
ReceiverFrom(s) ==
    IF s = Null THEN Null
    ELSE IF scopes[s].receiver_ # Null THEN scopes[s].receiver_
    ELSE ReceiverFrom(scopes[s].outer_scope)

C5_FunctionVarTakesLastContextSlot ==
    Analyzed =>
        \A s \in TreeScopes :
            (/\ is_function_scope(Zone, s)
             /\ scopes[s].function_ # Null
             /\ variables[scopes[s].function_].location = "CONTEXT")
            => /\ variables[scopes[s].function_].index = scopes[s].num_heap_slots - 1
               /\ \A v \in ContextAllocatedAt(s) \ {scopes[s].function_} :
                      variables[v].index < variables[scopes[s].function_].index

\* A function whose function variable is in the context together with other
\* variables of the function.
C5_Witness ==
    /\ Analyzed
    /\ \E s \in TreeScopes :
           /\ is_function_scope(Zone, s)
           /\ scopes[s].function_ # Null
           /\ variables[scopes[s].function_].location = "CONTEXT"
           /\ Cardinality(ContextAllocatedAt(s)) >= 3

\* ---------------------------------------------------------------------- C6
\* C6: no variable of mode TEMPORARY has location CONTEXT unless the scope
\* that allocated it has force_context_allocation; in particular the
\* TEMPORARY parameter of a function that uses sloppy arguments, whose
\* variable is forced to the context, is still not context-allocated.
C6_TemporariesStayOutOfContext ==
    Analyzed =>
        \A v \in AllVariables :
            (variables[v].mode = "TEMPORARY" /\ variables[v].location = "CONTEXT")
                => scopes[variables[v].scope].force_context_allocation

\* The function uses sloppy arguments: AllocateParameterLocals kept
\* arguments_ and the function is sloppy with a simple parameter list.
UsesSloppyArguments(s) ==
    /\ scopes[s].arguments_ # Null
    /\ ~scopes[s].has_arguments_parameter
    /\ is_sloppy(Zone, s)
    /\ scopes[s].has_simple_parameters

\* A used TEMPORARY parameter of a function that uses sloppy arguments: the
\* variable is forced to the context and is allocated as a PARAMETER.
C6_Witness ==
    /\ Analyzed
    /\ \E s \in TreeScopes, i \in 1..4 :
           /\ i <= Len(scopes[s].params)
           /\ UsesSloppyArguments(s)
           /\ ~scopes[s].force_context_allocation
           /\ LET v == scopes[s].params[i]
              IN  /\ variables[v].mode = "TEMPORARY"
                  /\ variables[v].force_context_allocation
                  /\ variables[v].location = "PARAMETER"

\* ---------------------------------------------------------------------- C7
Without(q, x) == SelectSeq(q, LAMBDA y : y # x)

\* C7: when FinalizeBlockScope removes block scope b from its outer scope o,
\* o's inner-scope list afterwards is b's former inner scopes in their
\* order followed by o's other former inner scopes in their order, each
\* moved scope has outer_scope = o, and o's unresolved list is b's former
\* unresolved proxies followed by o's former ones.
C7_FinalizeBlockScopeSplices ==
    (last.op = "FinalizeBlockScope" /\ last.ret = Null) =>
        LET b == last.scope
            o == last.pre.s[b].outer_scope
        IN  /\ InnerScopes(Zone, o) =
                   InnerScopes(last.pre, b) \o Without(InnerScopes(last.pre, o), b)
            /\ \A c \in SeqToSet(InnerScopes(last.pre, b)) : scopes[c].outer_scope = o
            /\ UnresolvedList(Zone, o) =
                   UnresolvedList(last.pre, b) \o UnresolvedList(last.pre, o)

\* A block with two inner scopes and a reference is removed from an outer
\* scope that has another inner scope and a reference of its own.
C7_Witness ==
    /\ last.op = "FinalizeBlockScope" /\ last.ret = Null
    /\ LET b == last.scope
           o == last.pre.s[b].outer_scope
       IN  /\ Len(InnerScopes(last.pre, b)) >= 2
           /\ Len(InnerScopes(last.pre, o)) >= 2
           /\ Len(UnresolvedList(last.pre, b)) >= 1
           /\ Len(UnresolvedList(last.pre, o)) >= 1

\* ---------------------------------------------------------------------- C8
\* C8: RemoveUnresolved(p) on a scope whose unresolved list holds p returns
\* true and removes exactly p, the other proxies keeping their order; on a
\* scope whose list does not hold p it returns false and leaves the list
\* unchanged; so a second call right after a first returns false and
\* changes nothing.
C8_RemoveUnresolvedOnce ==
    last.op = "RemoveUnresolved" =>
        LET before == UnresolvedList(last.pre, last.scope)
            after == UnresolvedList(Zone, last.scope)
        IN  /\ last.proxy \in SeqToSet(before) =>
                   last.ret = TRUE /\ after = Without(before, last.proxy)
            /\ last.proxy \notin SeqToSet(before) =>
                   last.ret = FALSE /\ after = before
            /\ last.again => last.ret = FALSE /\ after = before

\* The second of two calls in a row for the same proxy, the first of which
\* took the proxy out of the middle or the end of a list of several.
C8_Witness ==
    /\ last.op = "RemoveUnresolved" /\ last.again /\ last.ret = FALSE
    /\ last.pre.s[last.scope].unresolved # Null
    /\ last.pre.s[last.scope].unresolved > last.proxy

\* ---------------------------------------------------------------------- C9
DoneScopes == {done[i].scope : i \in 1..Len(done)}

DonePosition(s) == CHOOSE i \in 1..Len(done) : done[i].scope = s

SlotAllocated(v) == variables[v].location \in {"PARAMETER", "LOCAL", "CONTEXT"}

AllocationBegun(s) ==
    s \in DoneScopes \/ \E v \in AllVariables : variables[v].scope = s /\ SlotAllocated(v)

\* C9: allocation is post-order and the pipeline runs in order.  For every
\* scope s and inner scope c of s, c is finished, with num_heap_slots and
\* num_stack_slots at their final values, before any variable of s is
\* allocated and before s is finished; and PropagateScopeInfo comes before
\* ResolveVariablesRecursively, which comes before
\* AllocateVariablesRecursively, which comes before
\* AllocateScopeInfosRecursively: no variable is allocated before every
\* proxy of the tree is resolved.
C9_PostOrderAndPipelineOrder ==
    /\ \A i \in 1..Len(done) :
           /\ scopes[done[i].scope].num_heap_slots = done[i].num_heap_slots
           /\ scopes[done[i].scope].num_stack_slots = done[i].num_stack_slots
    /\ \A s \in TreeScopes :
           AllocationBegun(s) =>
               \A c \in SeqToSet(InnerScopes(Zone, s)) :
                   /\ c \in DoneScopes
                   /\ s \in DoneScopes => DonePosition(c) < DonePosition(s)
    /\ (done # <<>> \/ \E v \in AllVariables : SlotAllocated(v)) =>
           /\ pc \in {"resolved", "done"}
           /\ \A ref \in References : is_resolved(Zone, ref[2])
    /\ pc \in {"parse", "propagated"} =>
           \A ref \in References : ~is_resolved(Zone, ref[2])
    /\ pc = "done" => DoneScopes = TreeScopes

\* A finished analysis of a function inside a function, each with an
\* allocated variable of its own, the inner one finished first.
C9_Witness ==
    /\ pc = "done"
    /\ \E f \in TreeScopes, g \in TreeScopes :
           /\ scopes[g].outer_scope = f /\ scopes[f].outer_scope = 1
           /\ DonePosition(g) < DonePosition(f)
           /\ \E v \in AllVariables : variables[v].scope = f /\ SlotAllocated(v)
           /\ \E v \in AllVariables : variables[v].scope = g /\ SlotAllocated(v)

\* --------------------------------------------------------------------- C10
\* Reference p of scope r is a simple capture of variable x of function
\* scope f: f is the first scope outwards from r that declares the name, an
\* inner function of f lies between, and no scope between calls eval or is a
\* with scope.
SimpleCapture(r, p, f, x) ==
    LET name == proxies[p].name
        path == ResolutionPath(r, name)
        inner == {path[i] : i \in 1..(Len(path) - 1)}
    IN  /\ is_function_scope(Zone, f)
        /\ x # Null
        /\ scopes[f].variables[name] = x
        /\ path[Len(path)] = f
        /\ ~IsDynamicVariableMode(variables[x].mode)
        /\ \E g \in inner : is_function_scope(Zone, g)
        /\ \A t \in inner : ~calls_eval(Zone, t) /\ ~is_with_scope(Zone, t)

\* C10: when a variable x declared in function scope f is referenced from an
\* inner function scope g, with no eval call and no with scope involved, the
\* proxy in g is bound to that same x, x has forced context allocation and
\* location CONTEXT, and f.num_heap_slots >= MIN_CONTEXT_SLOTS + 1.
C10_SimpleClosureCapture ==
    Analyzed =>
        \A ref \in References, f \in TreeScopes :
            \A x \in {scopes[f].variables[proxies[ref[2]].name]} :
                SimpleCapture(ref[1], ref[2], f, x) =>
                    /\ proxies[ref[2]].var = x
                    /\ variables[x].force_context_allocation
                    /\ variables[x].location = "CONTEXT"
                    /\ scopes[f].num_heap_slots >= MIN_CONTEXT_SLOTS + 1

\* A declared variable x of f (not the receiver) captured by an inner function.
C10_Witness ==
    /\ Analyzed
    /\ \E ref \in References, f \in TreeScopes, x \in AllVariables :
           /\ SimpleCapture(ref[1], ref[2], f, x)
           /\ variables[x].kind = "NORMAL"
           /\ proxies[ref[2]].var = x

\* --------------------------------------------------------------------- C11
\* The variables that function scope f declares with mode VAR: its named
\* parameters, its receiver, `arguments` and its var-declared locals.
VarDeclaredIn(f) ==
    {scopes[f].variables[n] : n \in MapNames} \cap
        {v \in AllVariables : variables[v].mode = "VAR"}

ParametersOf(f) == SeqToSet(scopes[f].params)

DirectlyCallsSloppyEval(f) ==
    is_function_scope(Zone, f) /\ calls_sloppy_eval(Zone, f)

\* C11 as stated: in a function scope f that directly calls sloppy eval,
\* after AllocateVariables every parameter of f and every named var-declared
\* local of f has location CONTEXT.  A TEMPORARY parameter is never moved to
\* the context by MustAllocateInContext, so this fails.
C11_SloppyEvalContextAllocatesAll ==
    Analyzed =>
        \A f \in TreeScopes :
            DirectlyCallsSloppyEval(f) =>
                \A v \in ParametersOf(f) \cup VarDeclaredIn(f) :
                    variables[v].location = "CONTEXT"

\* C11 amended: in a function scope f that directly calls sloppy eval, after
\* AllocateVariables every parameter of f whose mode is not TEMPORARY and
\* every named var-declared local of f has location CONTEXT (none is left
\* UNALLOCATED, PARAMETER or LOCAL), whether or not the program text
\* references it.
C11_SloppyEvalContextAllocatesNamed ==
    Analyzed =>
        \A f \in TreeScopes :
            DirectlyCallsSloppyEval(f) =>
                \A v \in ParametersOf(f) \cup VarDeclaredIn(f) :
                    variables[v].mode # "TEMPORARY"
                        => variables[v].location = "CONTEXT"

\* A function that calls sloppy eval with a named parameter and a var local
\* that no reference of the program names, both in the context.
C11_Witness ==
    /\ Analyzed
    /\ \E f \in TreeScopes :
           /\ DirectlyCallsSloppyEval(f)
           /\ scopes[f].variables["x"] \in ParametersOf(f)
           /\ scopes[f].variables["y"] # Null
           /\ variables[scopes[f].variables["x"]].location = "CONTEXT"
           /\ variables[scopes[f].variables["y"]].location = "CONTEXT"
           /\ \A ref \in References : proxies[ref[2]].name \notin {"x", "y"}

\* --------------------------------------------------------------------- C12
\* The scope where the lookup of the reference p of scope r ends.
BindingScope(r, p) ==
    LET path == ResolutionPath(r, proxies[p].name)
    IN  path[Len(path)]

\* The scopes the lookup of p passes before it reaches the binding scope.
Between(r, p) ==
    LET path == ResolutionPath(r, proxies[p].name)
    IN  {path[i] : i \in 1..(Len(path) - 1)}

\* The reference p of scope r is made from an inner function of the function
\* scope f to the parameter or var x of f.
InnerReferenceTo(r, p, f, x) ==
    /\ f = BindingScope(r, p)
    /\ is_function_scope(Zone, f)
    /\ x = scopes[f].variables[proxies[p].name]
    /\ x # Null
    /\ variables[x].mode = "VAR" /\ variables[x].kind # "THIS"
    /\ \E g \in Between(r, p) : is_function_scope(Zone, g)

IsStandInFor(v, x) ==
    /\ variables[v].mode = "DYNAMIC_LOCAL"
    /\ variables[v].local_if_not_shadowed = x

\* C12 as stated: when a function scope f calls sloppy eval, every reference
\* made from an inner function of f to a parameter or var of f is resolved to
\* a DYNAMIC_LOCAL variable whose local_if_not_shadowed is the referenced
\* variable of f.  The eval call of f does not touch the lookups that end in
\* f: the reference is bound to the variable of f itself, so this fails.
C12_InnerReferencesAreDynamicLocal ==
    Analyzed =>
        \A ref \in References, f \in TreeScopes :
            \A x \in {scopes[f].variables[proxies[ref[2]].name]} :
                (InnerReferenceTo(ref[1], ref[2], f, x) /\ calls_sloppy_eval(Zone, f))
                    => IsStandInFor(proxies[ref[2]].var, x)

SloppyEvalBetween(r, p) ==
    \E t \in Between(r, p) :
        is_declaration_scope(Zone, t) /\ calls_sloppy_eval(Zone, t)

WithBetween(r, p) == \E t \in Between(r, p) : is_with_scope(Zone, t)

\* C12 amended: a reference made from an inner function of a function scope
\* f to a parameter or var of f, with no with scope between the reference and
\* f, is resolved to a DYNAMIC_LOCAL variable whose local_if_not_shadowed is
\* the referenced variable of f exactly when a declaration scope between the
\* reference and f (the inner function or a scope inside it, not f) calls
\* sloppy eval; otherwise it is bound to the variable of f itself, whether or
\* not f calls sloppy eval.
C12_EvalBetweenMakesDynamicLocal ==
    Analyzed =>
        \A ref \in References, f \in TreeScopes :
            \A x \in {scopes[f].variables[proxies[ref[2]].name]} :
                (InnerReferenceTo(ref[1], ref[2], f, x)
                 /\ ~WithBetween(ref[1], ref[2]))
                    => IF SloppyEvalBetween(ref[1], ref[2])
                       THEN IsStandInFor(proxies[ref[2]].var, x)
                       ELSE proxies[ref[2]].var = x

\* An inner function that calls sloppy eval and names a parameter of the
\* function outside it: the reference is bound to a DYNAMIC_LOCAL stand-in
\* for the parameter.
C12_Witness ==
    /\ Analyzed
    /\ \E ref \in References, f \in TreeScopes :
           LET x == scopes[f].variables[proxies[ref[2]].name]
           IN  /\ InnerReferenceTo(ref[1], ref[2], f, x)
               /\ x \in ParametersOf(f)
               /\ SloppyEvalBetween(ref[1], ref[2])
               /\ IsStandInFor(proxies[ref[2]].var, x)

\* --------------------------------------------------------------------- C13
\* The non-dynamic variable that the lookup of the reference p of scope r
\* finds: the variable of the binding scope's map or its function variable;
\* Null when the lookup ends at the script scope without a binding.
BindingVar(r, p) ==
    LET f == BindingScope(r, p)
        name == proxies[p].name
        var == scopes[f].variables[name]
    IN  IF var # Null /\ ~IsDynamicVariableMode(variables[var].mode) THEN var
        ELSE IF scopes[f].function_ # Null /\ variables[scopes[f].function_].name = name
        THEN scopes[f].function_
        ELSE Null

\* What C13 says of the variable b that the lookup finds outside the with
\* scope: used, forced to the context, and in the context after allocation
\* unless it is a global-object property.
MarkedForContext(b) ==
    /\ variables[b].is_used
    /\ variables[b].force_context_allocation
    /\ IsGlobalObjectProperty(Zone, b) \/ variables[b].location = "CONTEXT"

BoundToDynamicLookup(p) ==
    /\ BoundMode(p) = "DYNAMIC"
    /\ variables[proxies[p].var].location = "LOOKUP"

WithSeesBinding(r, p) ==
    \E w \in Between(r, p) :
        /\ is_with_scope(Zone, w)
        /\ \A t \in SeqToSet(ResolutionPath(w, proxies[p].name)) :
               ~calls_sloppy_eval(Zone, t)

RECURSIVE ChainToDeclarationScope(_, _)
ChainToDeclarationScope(h, start) ==
    IF h.s[start].is_declaration_scope THEN {start}
    ELSE {start} \cup ChainToDeclarationScope(h, h.s[start].outer_scope)

HasLexicalBinding(h, t, name) ==
    /\ h.s[t].variables[name] # Null
    /\ h.v[h.s[t].variables[name]].mode \in {"LET", "CONST"}

\* The declaration d of the decls of scope s is one that C14 calls
\* conflicting.
IsConflictingDeclaration(h, s, d) ==
    LET mode == h.v[h.p[d.proxy].var].mode
        lexical == mode \in {"LET", "CONST"}
        start == IF lexical THEN h.s[d.scope].outer_scope ELSE d.scope
    IN  /\ mode = "VAR" \/ (lexical /\ h.s[s].scope_type = "BLOCK")
        /\ \E t \in ChainToDeclarationScope(h, start) :
               HasLexicalBinding(h, t, h.p[d.proxy].name)

ConflictingPositions(h, s) ==
    {i \in 1..Len(h.s[s].decls) : IsConflictingDeclaration(h, s, h.s[s].decls[i])}

\* C14: CheckConflictingVarDeclarations on a scope returns the first
\* declaration d in decls order that is a VAR declaration (or a lexical one
\* when the scope is a block scope) and for which a scope on the chain from
\* the scope where d appears (its outer scope for a lexical d) out to and
\* including the first declaration scope has a lexical binding of d's name;
\* it returns null when there is none, and it changes nothing.
C14_CheckConflictingReturnsFirstConflict ==
    last.op = "CheckConflictingVarDeclarations" =>
        /\ Zone = last.pre
        /\ LET positions == ConflictingPositions(last.pre, last.scope)
           IN  IF positions = {} THEN last.ret = Null
               ELSE /\ last.ret \in positions
                    /\ \A i \in positions : last.ret <= i

\* { let x; var x; } checked on the declaration scope around the block: the
\* declaration returned is the var x of the block, which has let x.
C14_Witness ==
    /\ last.op = "CheckConflictingVarDeclarations"
    /\ last.ret # Null
    /\ LET d == scopes[last.scope].decls[last.ret]
       IN  /\ variables[proxies[d.proxy].var].mode = "VAR"
           /\ d.scope # last.scope
           /\ scopes[d.scope].scope_type = "BLOCK"
           /\ HasLexicalBinding(Zone, d.scope, "x")

\* --------------------------------------------------------------------- C15
\* The last operation declared var x through a block scope that is not a
\* declaration scope and that has a lexical binding of x: { let x; var x; }.
VarAfterLetInBlock ==
    /\ last.op = "DeclareVariable"
    /\ last.mode = "VAR"
    /\ last.pre.s[last.scope].scope_type = "BLOCK"
    /\ ~last.pre.s[last.scope].is_declaration_scope
    /\ HasLexicalBinding(last.pre, last.scope, last.pre.p[last.proxy].name)

\* C15 as stated: for { let x; var x; } the DeclareVariable call for var x
\* sets ok = false.  The var is hoisted to the declaration scope, where the
\* let of the block is not seen, so this fails.
C15_VarAfterLetSetsOkFalse ==
    VarAfterLetInBlock => ~ok

\* C15 amended: for { let x; var x; } in a declaration scope that has no
\* lexical binding of x, the DeclareVariable call for var x leaves ok
\* untouched, binds the declaration to a VAR variable of the declaration
\* scope and appends it to that scope's decls; the conflict is found by
\* CheckConflictingVarDeclarations on the declaration scope, which returns
\* this declaration unless an earlier one conflicts already.
C15_VarAfterLetIsLeftToTheCheck ==
    (/\ VarAfterLetInBlock
     /\ ~HasLexicalBinding(last.pre, last.target, last.pre.p[last.proxy].name))
    => /\ ok
       /\ last.ret # Null
       /\ proxies[last.proxy].var = last.ret
       /\ variables[last.ret].scope = last.target
       /\ variables[last.ret].mode = "VAR"
       /\ scopes[last.target].decls = Append(last.pre.s[last.target].decls, last.decl)
       /\ LET before == CheckConflictingVarDeclarations(last.pre, last.target)
              after == CheckConflictingVarDeclarations(Zone, last.target)
          IN  IF before = Null THEN after = Len(scopes[last.target].decls)
              ELSE after = before

\* { let x; var x; }: the call for var x has returned with ok still true, and
\* the check on the declaration scope returns that declaration.
C15_Witness ==
    /\ VarAfterLetInBlock
    /\ ok
    /\ last.ret # Null
    /\ CheckConflictingVarDeclarations(Zone, last.target)
           = Len(scopes[last.target].decls)

\* --------------------------------------------------------------------- C16
\* The variable that the target scope of the last DeclareVariable call bound
\* the name to before the call, Null when it had none.
OldBinding ==
    last.pre.s[last.target].variables[last.pre.p[last.proxy].name]

\* The permitted sloppy block-function redefinition applies to the last
\* DeclareVariable call.
RedefinitionApplies ==
    /\ ~last.pre.s[last.target].strict
    /\ last.decl.is_function
    /\ last.pre.v[OldBinding].kind = "FUNCTION"
    /\ last.pre.p[last.proxy].name \in
           last.pre.s[GetDeclarationScope(last.pre, last.target)]
               .sloppy_block_function_map
    /\ last.decl.function_kind # "kAsyncFunction"
    /\ ~(last.allow_harmony_restrictive_generators
         /\ last.decl.function_kind = "kGeneratorFunction")

\* What C16 calls a conflicting declaration.
IsConflict ==
    /\ OldBinding # Null
    /\ last.mode \in {"LET", "CONST"}
           \/ last.pre.v[OldBinding].mode \in {"LET", "CONST"}
    /\ ~RedefinitionApplies

\* The call reported an error and changed nothing.
ReportedConflict ==
    /\ ~ok
    /\ last.ret = Null
    /\ Zone = last.pre

\* The call went through: ok untouched, the declaration appended to the
\* target scope's decls, the proxy bound to the returned variable.
Declared ==
    /\ ok
    /\ last.ret # Null
    /\ scopes[last.target].decls = Append(last.pre.s[last.target].decls, last.decl)
    /\ proxies[last.proxy].var = last.ret

\* C16 as stated: DeclareVariable reports a conflict (ok = false, null,
\* nothing appended, declared or bound) when the name is already bound in the
\* target scope, one of the two bindings is lexical and the sloppy
\* block-function redefinition does not apply; in every other case it leaves
\* ok untouched, appends the declaration and binds the proxy.  A var declared
\* in a sloppy eval scope is not looked up at all, so this fails.
C16_ConflictIffLexicalRebinding ==
    last.op = "DeclareVariable" =>
        IF IsConflict THEN ReportedConflict ELSE Declared

\* The target scope is a sloppy eval scope and the mode is VAR.
IsSloppyEvalVar ==
    /\ last.pre.s[last.target].scope_type = "EVAL"
    /\ ~last.pre.s[last.target].strict
    /\ last.mode = "VAR"

\* C16 amended: as C16, except that a VAR declared in a sloppy eval scope is
\* never a conflict for DeclareVariable: the call makes a new VAR variable
\* with location LOOKUP that is not entered in the variable map, appends the
\* declaration and binds the proxy, whatever the map holds.
C16_ConflictIffLexicalRebindingButEvalVar ==
    last.op = "DeclareVariable" =>
        IF IsSloppyEvalVar
        THEN /\ Declared
             /\ variables[last.ret].location = "LOOKUP"
             /\ Len(variables) = Len(last.pre.v) + 1
             /\ scopes[last.target].variables = last.pre.s[last.target].variables
        ELSE IF IsConflict THEN ReportedConflict
        ELSE Declared

\* A let after a var of the same name in the same scope: reported, with the
\* state as it was before the call.
C16_Witness ==
    /\ last.op = "DeclareVariable"
    /\ IsConflict
    /\ last.mode = "LET"
    /\ last.pre.v[OldBinding].mode = "VAR"
    /\ ReportedConflict

\* --------------------------------------------------------------------- C17
\* The last DeclareVariable call declared a function declaration whose name
\* the same scope already bound to a lexical variable of kind FUNCTION.
RedeclaresBlockFunction ==
    /\ last.op = "DeclareVariable"
    /\ last.decl.is_function
    /\ OldBinding # Null
    /\ last.pre.v[OldBinding].mode \in {"LET", "CONST"}
    /\ last.pre.v[OldBinding].kind = "FUNCTION"

\* C17: when DeclareVariable declares a function declaration whose name is
\* already bound in the same scope to a lexical function-kind variable, then
\* if the scope is sloppy, the name is in the sloppy_block_function_map of
\* the enclosing declaration scope and the new function is neither async nor
\* (with allow_harmony_restrictive_generators) a generator, the call sets
\* sloppy_mode_block_scope_function_redefinition, leaves ok alone, returns
\* the existing variable and appends the declaration to decls; if one of
\* these conditions fails, the call sets ok = false.
C17_SloppyBlockFunctionRedefinition ==
    RedeclaresBlockFunction =>
        IF /\ ~last.pre.s[last.target].strict
           /\ last.pre.p[last.proxy].name \in
                  last.pre.s[GetDeclarationScope(last.pre, last.target)]
                      .sloppy_block_function_map
           /\ last.decl.function_kind # "kAsyncFunction"
           /\ ~(last.allow_harmony_restrictive_generators
                /\ last.decl.function_kind = "kGeneratorFunction")
        THEN /\ last.redefinition
             /\ ok
             /\ last.ret = OldBinding
             /\ scopes[last.target].decls =
                    Append(last.pre.s[last.target].decls, last.decl)
        ELSE /\ ~ok
             /\ ~last.redefinition

\* { function x(){} function x(){} } in sloppy mode: the second declaration
\* is flagged as a redefinition and is bound to the variable of the first.
C17_Witness ==
    /\ RedeclaresBlockFunction
    /\ last.redefinition
    /\ ok
    /\ last.ret = OldBinding
    /\ Len(scopes[last.target].decls) >= 2

\* --------------------------------------------------------------------- C18
\* The positions (from 0) of the parameter list of f that hold variable v,
\* and those that hold a parameter of the given name.
PositionsOf(f, v) ==
    {i \in 0..(Len(scopes[f].params) - 1) : scopes[f].params[i + 1] = v}

PositionsNamed(f, name) ==
    {i \in 0..(Len(scopes[f].params) - 1) :
        variables[scopes[f].params[i + 1]].name = name}

\* C18: a parameter name declared at several positions of a function's
\* parameter list stands for one variable, and when a parameter ends up with
\* location PARAMETER its index is the highest position at which it occurs.
C18_DuplicateParameterTakesHighestIndex ==
    Analyzed =>
        \A f \in TreeScopes : \A v \in ParametersOf(f) :
            /\ variables[v].name # EmptyName
                   => PositionsNamed(f, variables[v].name) = PositionsOf(f, v)
            /\ variables[v].location = "PARAMETER"
                   => /\ variables[v].index \in PositionsOf(f, v)
                      /\ \A i \in PositionsOf(f, v) : i <= variables[v].index

\* function f(x, x) { x }: the parameter is allocated as PARAMETER with the
\* index of its second position.
C18_Witness ==
    /\ Analyzed
    /\ \E f \in TreeScopes : \E v \in ParametersOf(f) :
           /\ Cardinality(PositionsOf(f, v)) >= 2
           /\ variables[v].location = "PARAMETER"
           /\ variables[v].index >= 1

\* --------------------------------------------------------------------- C19
\* The block that the last FinalizeBlockScope call was made on is one that
\* C19 says is kept: its variable map is not empty, or it is a declaration
\* scope that calls sloppy eval.
IsKeptBlock ==
    LET b == last.pre.s[last.scope]
    IN  \/ \E n \in MapNames : b.variables[n] # Null
        \/ b.is_declaration_scope /\ b.scope_calls_eval /\ ~b.strict

\* C19: FinalizeBlockScope returns the scope itself and changes nothing
\* exactly when the block's variable map is not empty or the block is a
\* declaration scope that calls sloppy eval; otherwise it returns null, the
\* block is no longer in its outer scope's inner list, its own inner and
\* unresolved lists are empty, its num_heap_slots is 0, and when the block
\* called eval the outer scope is recorded as calling eval.
C19_FinalizeBlockScopeKeepsOrRemoves ==
    last.op = "FinalizeBlockScope" =>
        LET b == last.scope
            o == last.pre.s[b].outer_scope
        IN  IF IsKeptBlock
            THEN last.ret = b /\ Zone = last.pre
            ELSE /\ last.ret = Null
                 /\ b \notin SeqToSet(InnerScopes(Zone, o))
                 /\ scopes[b].inner_scope = Null
                 /\ scopes[b].unresolved = Null
                 /\ scopes[b].num_heap_slots = 0
                 /\ last.pre.s[b].scope_calls_eval
                        => /\ scopes[o].scope_calls_eval
                           /\ scopes[o].inner_scope_calls_eval

\* A block that called eval and held a reference and an inner scope is
\* removed: the outer scope has taken over the eval call, the reference and
\* the inner scope.
C19_Witness ==
    /\ last.op = "FinalizeBlockScope"
    /\ last.ret = Null
    /\ last.pre.s[last.scope].scope_calls_eval
    /\ last.pre.s[last.scope].inner_scope # Null
    /\ last.pre.s[last.scope].unresolved # Null
    /\ ~last.pre.s[last.pre.s[last.scope].outer_scope].scope_calls_eval
    /\ scopes[last.pre.s[last.scope].outer_scope].scope_calls_eval

\* --------------------------------------------------------------------- C20
\* The call of Reparent that last keeps: the snapshot's scope s, its closure
\* scope, new_parent, and the lists as they were when the snapshot was taken
\* (At) and just before the call (Before).
ReparentedScope == last.snap.obj.outer_scope_
ReparentedClosure == GetClosureScope(last.pre, ReparentedScope)
InnerScopesAtSnapshot == InnerScopes(last.snap.zone, ReparentedScope)
UnresolvedAtSnapshot == UnresolvedList(last.snap.zone, ReparentedScope)
LocalsAtSnapshot == last.snap.zone.s[ReparentedClosure].locals
DeclsAtSnapshot == last.snap.zone.s[ReparentedClosure].decls

\* The other scopes added to s since the snapshot, the proxies added to s
\* since, and the locals added to the closure scope since, each in the order
\* of its list before the call.
ScopesAddedSince ==
    SelectSeq(InnerScopes(last.pre, ReparentedScope),
              LAMBDA x : x # last.scope /\ x \notin SeqToSet(InnerScopesAtSnapshot))
ProxiesAddedSince ==
    SelectSeq(UnresolvedList(last.pre, ReparentedScope),
              LAMBDA x : x \notin SeqToSet(UnresolvedAtSnapshot))
LocalsAddedSince ==
    SelectSeq(last.pre.s[ReparentedClosure].locals,
              LAMBDA x : x \notin SeqToSet(LocalsAtSnapshot))

\* C20: after Snapshot(s), additions of inner scopes, unresolved proxies and
\* closure-scope locals, and Reparent(new_parent) with new_parent the newest
\* inner scope of s: (a) s's inner list is new_parent followed by the inner
\* scopes s had at snapshot time; (b) new_parent's inner list is the other
\* scopes added since, in order, each with outer scope new_parent; (c) s's
\* unresolved list is the list at snapshot time and new_parent's is the
\* proxies added since, in order; (d) every local added to the closure scope
\* since has scope new_parent, is in new_parent's locals and, when VAR, is in
\* new_parent's variable map and in the outer closure's map no more; (e) the
\* outer closure's locals and decls have the lengths of snapshot time.
C20_ReparentPartitionsAtSnapshot ==
    last.op = "Reparent" =>
        LET s == ReparentedScope
            new_parent == last.scope
            outer_closure == ReparentedClosure
        IN  /\ InnerScopes(Zone, s) = <<new_parent>> \o InnerScopesAtSnapshot
            /\ InnerScopes(Zone, new_parent) = ScopesAddedSince
            /\ \A x \in SeqToSet(ScopesAddedSince) :
                   scopes[x].outer_scope = new_parent
            /\ UnresolvedList(Zone, s) = UnresolvedAtSnapshot
            /\ UnresolvedList(Zone, new_parent) = ProxiesAddedSince
            /\ \A local \in SeqToSet(LocalsAddedSince) :
                   /\ variables[local].scope = new_parent
                   /\ local \in SeqToSet(scopes[new_parent].locals)
                   /\ variables[local].mode = "VAR" =>
                          /\ scopes[new_parent].variables[variables[local].name] = local
                          /\ \A n \in MapNames :
                                 scopes[outer_closure].variables[n] # local
            /\ Len(scopes[outer_closure].locals) = Len(LocalsAtSnapshot)
            /\ Len(scopes[outer_closure].decls) = Len(DeclsAtSnapshot)

\* An arrow function whose parameter expression added an inner scope, a
\* reference and a local to what the scope had at the snapshot.
C20_Witness ==
    /\ last.op = "Reparent"
    /\ ScopesAddedSince # <<>>
    /\ ProxiesAddedSince # <<>>
    /\ LocalsAddedSince # <<>>

\* --------------------------------------------------------------------- C21
\* C21: after PropagateScopeInfo has run on the script scope, every scope of
\* the tree that has a proper descendant with scope_calls_eval set has
\* inner_scope_calls_eval set, whatever sequence of scope creation, eval
\* recording, FinalizeBlockScope, ReplaceOuterScope and Snapshot/Reparent
\* built the tree.  Reparent and ReplaceOuterScope put a scope that calls
\* eval under a scope that never heard of the call, and PropagateScopeInfo
\* writes no eval flag, so this fails.
C21_DescendantEvalSetsInnerFlag ==
    pc = "propagated" =>
        \A s \in TreeScopes :
            (\E d \in Descendants(Zone, s) \ {s} : scopes[d].scope_calls_eval)
                => scopes[s].inner_scope_calls_eval

\* --------------------------------------------------------------------- C22
\* The variable of module scope m that the regular import or export name
\* stands for.
ModuleVariable(m, name) == scopes[m].variables[name]

\* C22: after the allocation of a module scope every regular import and
\* every regular export variable has location MODULE, all imports share one
\* index, and any two distinct exported variables have distinct indices.
\* AllocateModuleVariables gives every export the index 0, so two exports
\* share their slot.
C22_ModuleSlotsDistinctPerExport ==
    Analyzed =>
        \A m \in {s \in TreeScopes : scopes[s].scope_type = "MODULE"} :
            /\ \A n \in scopes[m].regular_imports \cup scopes[m].regular_exports :
                   variables[ModuleVariable(m, n)].location = "MODULE"
            /\ \A n1, n2 \in scopes[m].regular_imports :
                   variables[ModuleVariable(m, n1)].index
                       = variables[ModuleVariable(m, n2)].index
            /\ \A n1, n2 \in scopes[m].regular_exports :
                   n1 # n2 => variables[ModuleVariable(m, n1)].index
                                  # variables[ModuleVariable(m, n2)].index

\* --------------------------------------------------------------------- C23
\* The function scopes of the tree that have a function variable, and the
\* variable of the scope's map that bears the function variable's name.
ScopesWithFunctionVar ==
    {f \in TreeScopes : scopes[f].scope_type = "FUNCTION" /\ scopes[f].function_ # Null}
FunctionVarKept(f) ==
    LET fv == scopes[f].function_
    IN  /\ \A n \in MapNames : scopes[f].variables[n] # fv
        /\ variables[fv].mode = (IF scopes[f].strict THEN "CONST" ELSE "CONST_LEGACY")
LocalNamedLikeFunctionVar(f) == scopes[f].variables[variables[scopes[f].function_].name]

\* C23 as stated: the function variable is kept in function_ and not in the
\* variable map, CONST in strict and CONST_LEGACY in sloppy code, and in a
\* function scope that also has a parameter or local of that name a
\* reference to the name in the function resolves to the function variable.
\* LookupRecursive asks LookupLocal first, so the reference is bound to the
\* parameter or local.
C23_FunctionVarShadowsLocals ==
    Analyzed =>
        \A f \in ScopesWithFunctionVar :
            /\ FunctionVarKept(f)
            /\ LocalNamedLikeFunctionVar(f) # Null =>
                   \A p \in SeqToSet(UnresolvedList(Zone, f)) :
                       proxies[p].name = variables[scopes[f].function_].name
                           => proxies[p].var = scopes[f].function_

\* C23 amended: the function variable is kept in function_ and not in the
\* variable map, CONST in strict and CONST_LEGACY in sloppy code, and it is
\* shadowed by parameters and locals: in a function scope that also has a
\* parameter or local of that name, a reference to the name in the function
\* scope resolves to the parameter or local, and no reference of the program
\* is bound to the function variable.
C23_LocalsShadowFunctionVar ==
    Analyzed =>
        \A f \in ScopesWithFunctionVar :
            /\ FunctionVarKept(f)
            /\ LocalNamedLikeFunctionVar(f) # Null =>
                   /\ \A p \in SeqToSet(UnresolvedList(Zone, f)) :
                          proxies[p].name = variables[scopes[f].function_].name
                              => proxies[p].var = LocalNamedLikeFunctionVar(f)
                   /\ \A ref \in References :
                          proxies[ref[2]].var # scopes[f].function_

\* A strict named function expression with a parameter of its own name and a
\* reference to the name in its body.
C23_Witness ==
    /\ Analyzed
    /\ \E f \in ScopesWithFunctionVar :
           /\ scopes[f].strict
           /\ LocalNamedLikeFunctionVar(f) # Null
           /\ LocalNamedLikeFunctionVar(f) \in SeqToSet(scopes[f].params)
           /\ \E p \in SeqToSet(UnresolvedList(Zone, f)) :
                  /\ proxies[p].name = variables[scopes[f].function_].name
                  /\ proxies[p].var = LocalNamedLikeFunctionVar(f)

\* --------------------------------------------------------------------- C24
\* The reference p of scope r is a reference to `this` whose lookup ends at
\* a scope with a receiver; the receiver it ends at; a debug-evaluate scope
\* lies on the lookup's way.
FindsReceiver(r, p) ==
    /\ proxies[p].name = ThisName
    /\ HasBinding(BindingScope(r, p), ThisName)
    /\ variables[scopes[BindingScope(r, p)].variables[ThisName]].kind = "THIS"
ReceiverFound(r, p) == scopes[BindingScope(r, p)].variables[ThisName]
DebugEvaluateOnPath(r, p) ==
    \E d \in SeqToSet(ResolutionPath(r, ThisName)) : scopes[d].is_debug_evaluate_scope

\* C24: a reference to `this` whose lookup finds a variable of kind THIS is
\* bound to that variable itself, whatever with scopes and declaration
\* scopes that call sloppy eval lie on the way, and never to a dynamic
\* stand-in, except that a debug-evaluate scope on the way yields a DYNAMIC
\* variable.
C24_ThisIsNeverShadowed ==
    Analyzed =>
        \A ref \in References :
            FindsReceiver(ref[1], ref[2]) =>
                IF DebugEvaluateOnPath(ref[1], ref[2])
                THEN variables[proxies[ref[2]].var].mode = "DYNAMIC"
                ELSE proxies[ref[2]].var = ReceiverFound(ref[1], ref[2])

\* `this` read in an arrow function that calls sloppy eval, inside a
\* function: bound to the function's receiver.
C24_Witness ==
    /\ Analyzed
    /\ \E ref \in References :
           /\ FindsReceiver(ref[1], ref[2])
           /\ SloppyEvalBetween(ref[1], ref[2])
           /\ ~DebugEvaluateOnPath(ref[1], ref[2])
           /\ proxies[ref[2]].var = ReceiverFound(ref[1], ref[2])

\* --------------------------------------------------------------------- C25
\* A variable of scope s received a context slot; s is one of the scopes the
\* claim lists as needing a context whatever they hold.
HasContextVariable(s) ==
    \E v \in AllVariables : variables[v].scope = s /\ variables[v].location = "CONTEXT"
ListedAsNeedingContext(s) ==
    \/ scopes[s].scope_type = "WITH"
    \/ scopes[s].scope_type = "MODULE"
    \/ scopes[s].scope_type = "FUNCTION" /\ calls_sloppy_eval(Zone, s)
    \/ /\ scopes[s].scope_type = "BLOCK" /\ scopes[s].is_declaration_scope
       /\ calls_sloppy_eval(Zone, s)

\* C25: after the allocation every scope of the tree has num_heap_slots = 0
\* or num_heap_slots >= MIN_CONTEXT_SLOTS, and it is 0 exactly when no
\* variable of the scope received a context slot and the scope is neither a
\* with scope, a module scope, a function scope that calls sloppy eval nor a
\* declaration block scope that calls sloppy eval.
C25_HeapSlotsZeroIffNoContextNeeded ==
    Analyzed =>
        \A s \in TreeScopes :
            /\ scopes[s].num_heap_slots = 0
                   \/ scopes[s].num_heap_slots >= MIN_CONTEXT_SLOTS
            /\ scopes[s].num_heap_slots = 0
                   <=> (~HasContextVariable(s) /\ ~ListedAsNeedingContext(s))

\* A with scope that holds the minimum of slots without a variable in its
\* context, next to a scope with a context variable and a scope without
\* context.
C25_Witness ==
    /\ Analyzed
    /\ \E s \in TreeScopes :
           /\ scopes[s].scope_type = "WITH"
           /\ ~HasContextVariable(s)
           /\ scopes[s].num_heap_slots = MIN_CONTEXT_SLOTS
    /\ \E s \in TreeScopes :
           HasContextVariable(s) /\ scopes[s].num_heap_slots > MIN_CONTEXT_SLOTS
    /\ \E s \in TreeScopes : scopes[s].num_heap_slots = 0

\* --------------------------------------------------------------------- C26
\* The calls of the last FetchFreeVariables: the call itself and its
\* recursive calls.
FetchCalls == IF last.op = "FetchFreeVariables" THEN SeqToSet(last.calls) ELSE {}

\* The proxies in the unresolved lists of the subtree the call c was made on,
\* with the scope whose list holds them, as the call found them.
FetchCandidates(c) ==
    {pr \in Descendants(c.pre, c.scope) \X (1..Len(c.pre.p)) :
        pr[2] \in SeqToSet(UnresolvedList(c.pre, pr[1]))}

\* What LookupRecursive without declare_free finds for the candidate pr inside
\* the function the fetch is bounded by, in the zone before the call c.
FetchLookup(c, pr) ==
    LookupRecursive(c.pre, pr[1], pr[2], FALSE, c.pre.s[last.scope].outer_scope)

FetchFree(c) ==
    {pr \in FetchCandidates(c) :
        ~is_resolved(c.pre, pr[2]) /\ FetchLookup(c, pr).var = Null}

FetchFound(c) ==
    {pr \in FetchCandidates(c) :
        ~is_resolved(c.pre, pr[2]) /\ FetchLookup(c, pr).var # Null}

ReturnedList(c) == ProxyWalk(c.post, c.ret, Len(c.post.p) + 1)
IncomingList(c) == ProxyWalk(c.pre, c.stack, Len(c.pre.p) + 1)
PushedList(c) ==
    SubSeq(ReturnedList(c), 1, Len(ReturnedList(c)) - Len(IncomingList(c)))

EvaluatedByMustAllocate ==
    {v \in AllVariables :
        /\ variables[v].scope \in TreeScopes
        /\ variables[v].location # "MODULE"}

\* C27: the assertion of MustAllocate holds: a variable with forced context
\* allocation is used when MustAllocate has marked it, the parameters that
\* AllocateParameterLocals forces into the context under sloppy `arguments`
\* included, referenced by the body or not.
C27_ForcedContextAllocationIsUsed ==
    Analyzed =>
        \A v \in EvaluatedByMustAllocate :
            variables[v].force_context_allocation => variables[v].is_used

\* --------------------------------------------------------------------- C28
\* C28: after ResolveVariablesRecursively, for every assignment target that
\* lies inside a with scope and whose name has a non-dynamic binding in a
\* scope outside that with scope, the binding is marked maybe_assigned,
\* however many references to the name were resolved through the with scope
\* before it.
C28_AssignmentThroughWithMarksOuter ==
    pc = "resolved" =>
        \A ref \in References :
            (/\ proxies[ref[2]].is_assigned
             /\ WithBetween(ref[1], ref[2])
             /\ BindingVar(ref[1], ref[2]) # Null)
                => variables[BindingVar(ref[1], ref[2])].maybe_assigned

\* --------------------------------------------------------------------- C29
\* The scopes FinalizeBlockScope has not removed.
LiveScopes == AllScopes \ tracked.finalized

\* The places where scope s occurs in an inner/sibling list: <<o, i>> for
\* position i of the list of scope o.  The walk of a list stops after one
\* step more than there are scopes, so a cyclic list is longer than the zone.
InnerOccurrences(s) ==
    {oi \in AllScopes \X (1..(Len(scopes) + 1)) :
        /\ oi[2] <= Len(InnerScopes(Zone, oi[1]))
        /\ InnerScopes(Zone, oi[1])[oi[2]] = s}

\* The places where proxy p occurs in an unresolved list.
UnresolvedOccurrences(p) ==
    {oi \in AllScopes \X (1..(Len(proxies) + 1)) :
        /\ oi[2] <= Len(UnresolvedList(Zone, oi[1]))
        /\ UnresolvedList(Zone, oi[1])[oi[2]] = p}

\* Following the outer pointers from s reaches the script scope.
RECURSIVE ReachesRoot(_, _)
ReachesRoot(s, fuel) ==
    IF s = 1 THEN TRUE
    ELSE IF s = Null \/ fuel = 0 THEN FALSE
    ELSE ReachesRoot(scopes[s].outer_scope, fuel - 1)

\* C29: after any sequence of scope constructions, FinalizeBlockScope,
\* ReplaceOuterScope and Snapshot/Reparent, every scope but the script scope
\* occurs exactly once in exactly one inner/sibling list, that of the scope
\* its outer pointer names; the lists are finite; the outer pointers lead
\* from every scope to the script scope; and every proxy added with
\* AddUnresolved and not removed occurs exactly once in exactly one
\* unresolved list.
C29_TreeWellFormed ==
    /\ \A s \in LiveScopes \ {1} :
           /\ Cardinality(InnerOccurrences(s)) = 1
           /\ \A oi \in InnerOccurrences(s) : oi[1] = scopes[s].outer_scope
    /\ \A o \in AllScopes :
           /\ Len(InnerScopes(Zone, o)) <= Len(scopes)
           /\ Len(UnresolvedList(Zone, o)) <= Len(proxies)
    /\ \A s \in LiveScopes : ReachesRoot(s, Len(scopes))
    /\ \A p \in tracked.added : Cardinality(UnresolvedOccurrences(p)) = 1

\* ReplaceOuterScope has moved a scope from the script scope into another
\* scope, in a program with a reference.
C29_Witness ==
    /\ last.op = "ReplaceOuterScope"
    /\ tracked.added # {}
    /\ \E s \in LiveScopes \ {1} :
           /\ scopes[s].outer_scope # 1
           /\ last.pre.s[s].outer_scope # scopes[s].outer_scope

\* --------------------------------------------------------------------- C30
\* The name of the reference p of scope r has no binding on the chain from r
\* to the script scope.
NoBindingOnChain(r, p) == BindingVar(r, p) = Null

\* The lookup of p from r passes a debug-evaluate scope.
DebugEvaluateBetween(r, p) ==
    \E d \in SeqToSet(ResolutionPath(r, proxies[p].name)) :
        scopes[d].is_debug_evaluate_scope

\* The lookup of p from r reaches the script scope through plain scopes only.
PlainLookup(r, p) ==
    /\ ~WithBetween(r, p)
    /\ ~SloppyEvalBetween(r, p)
    /\ ~DebugEvaluateBetween(r, p)

\* p is bound to the DYNAMIC_GLOBAL variable of the script scope's map.
BoundToScriptGlobal(p) ==
    /\ proxies[p].var # Null
    /\ BoundMode(p) = "DYNAMIC_GLOBAL"
    /\ proxies[p].var = scopes[1].variables[proxies[p].name]
    /\ variables[proxies[p].var].scope = 1

\* C30 as stated: after the resolution every proxy of every unresolved list
\* is bound, every reference to a name with no binding on its chain is bound
\* to a DYNAMIC_GLOBAL variable declared in the script scope, and two such
\* references to one name are bound to the same variable.  A with scope or a
\* sloppy eval on the way binds the proxy to a variable of its own, so this
\* fails.
C30_FreeNamesBindToTheScriptGlobal ==
    Analyzed =>
        /\ \A ref \in References : proxies[ref[2]].var # Null
        /\ \A ref \in References :
               NoBindingOnChain(ref[1], ref[2]) => BoundToScriptGlobal(ref[2])
        /\ \A ref1 \in References, ref2 \in References :
               (/\ NoBindingOnChain(ref1[1], ref1[2])
                /\ NoBindingOnChain(ref2[1], ref2[2])
                /\ proxies[ref1[2]].name = proxies[ref2[2]].name)
                   => proxies[ref1[2]].var = proxies[ref2[2]].var

\* C30 amended: every proxy of every unresolved list is bound; a reference to
\* a name with no binding on its chain is bound to a variable of dynamic
\* mode, and a DYNAMIC_GLOBAL variable for the name is declared in the script
\* scope; when the lookup passes no with scope, no declaration scope that
\* calls sloppy eval and no debug-evaluate scope, the proxy is bound to that
\* variable of the script scope, so two such references to one name are
\* bound to the same variable.
C30_PlainFreeNamesBindToTheScriptGlobal ==
    Analyzed =>
        /\ \A ref \in References : proxies[ref[2]].var # Null
        /\ \A ref \in References :
               NoBindingOnChain(ref[1], ref[2]) =>
                   /\ IsDynamicVariableMode(BoundMode(ref[2]))
                   /\ DebugEvaluateBetween(ref[1], ref[2])
                      \/ /\ scopes[1].variables[proxies[ref[2]].name] # Null
                         /\ variables[scopes[1].variables[proxies[ref[2]].name]].mode
                                = "DYNAMIC_GLOBAL"
                   /\ PlainLookup(ref[1], ref[2]) => BoundToScriptGlobal(ref[2])
        /\ \A ref1 \in References, ref2 \in References :
               (/\ NoBindingOnChain(ref1[1], ref1[2]) /\ PlainLookup(ref1[1], ref1[2])
                /\ NoBindingOnChain(ref2[1], ref2[2]) /\ PlainLookup(ref2[1], ref2[2])
                /\ proxies[ref1[2]].name = proxies[ref2[2]].name)
                   => proxies[ref1[2]].var = proxies[ref2[2]].var

\* Two references to an undeclared name, one in a function and one outside
\* it, bound to the script scope's DYNAMIC_GLOBAL variable.
C30_Witness ==
    /\ Analyzed
    /\ \E ref1 \in References, ref2 \in References :
           /\ ref1[1] # ref2[1]
           /\ is_function_scope(Zone, ref1[1])
           /\ proxies[ref1[2]].name = proxies[ref2[2]].name
           /\ NoBindingOnChain(ref1[1], ref1[2]) /\ PlainLookup(ref1[1], ref1[2])
           /\ NoBindingOnChain(ref2[1], ref2[2]) /\ PlainLookup(ref2[1], ref2[2])
           /\ BoundToScriptGlobal(ref1[2])
           /\ proxies[ref2[2]].var = proxies[ref1[2]].var

====
